---- MODULE Spec2Model ----
(***************************************************************************)
(* Model of the build-in-place synchronization core:                       *)
(*   GameDocumentStore (setDoc / patchDoc / applyPatch), the Zod validator  *)
(*   (validatePatches, GameDocumentSchema), RuntimeState, EventBus,         *)
(*   ActionExecutor and SceneReconciler.                                    *)
(*                                                                         *)
(* JSON objects are functions whose domain is the set of keys present, so   *)
(* "field absent" is "key not in DOMAIN".  JSON arrays are sequences (the   *)
(* JSON index i is the sequence index i+1).  A JSON pointer is the sequence *)
(* of its "/"-separated segments; a scene id is the sequence of its         *)
(* "/"-free parts, so that the string `/scenes/${activeScene}${path}` is    *)
(* the concatenation of segment sequences and splitting it again on "/" is  *)
(* what the patch library does.                                             *)
(***************************************************************************)
EXTENDS Integers, Sequences, FiniteSets, TLC

VARIABLES
    doc,            \* gameDocumentStore.getState().doc (Undefined before setDoc)
    variables,      \* RuntimeState.variables : Map<string, number>
    isPlaying,      \* RuntimeState.isPlaying
    destroyedNodes, \* RuntimeState.destroyedNodes : Set<string>
    mounted,        \* BabylonViewport effect ran: reconciler built, bus wired,
                    \* store subscription `state => reconciler.reconcile(state.doc)`
    rec,            \* the SceneReconciler instance and the Babylon scene it owns
    obs,            \* what the last operation returned / emitted
    hook            \* useGameActions: lastPatchRef, lastPatchTimeRef, the wall
                    \* clock, and what the updateGameDocument handler last did

vars == <<doc, variables, isPlaying, destroyedNodes, mounted, rec, obs, hook>>

\* JavaScript `undefined` (store.doc before any setDoc, a hole of an array).
Undefined == [undefined |-> TRUE]

(***************************************************************************)
(* Generic helpers on JSON objects and arrays                              *)
(***************************************************************************)
Has(o, k) == k \in DOMAIN o

\* obj[key] = value
PutKey(o, k, x) == [j \in (DOMAIN o) \cup {k} |-> IF j = k THEN x ELSE o[j]]

\* delete obj[key]
DelKey(o, k) == [j \in (DOMAIN o) \ {k} |-> o[j]]

\* keep only the keys a z.object() schema declares (Zod strips unknown keys)
Strip(o, keys) == [j \in (DOMAIN o) \cap keys |-> o[j]]

\* arr.splice(i, 0, x): the start index is clamped to the length
Splice0(arr, i, x) ==
    IF i >= Len(arr) THEN Append(arr, x)
    ELSE SubSeq(arr, 1, i) \o <<x>> \o SubSeq(arr, i + 1, Len(arr))

\* arr.splice(i, 1)
Splice1(arr, i) ==
    IF i >= Len(arr) THEN arr
    ELSE SubSeq(arr, 1, i) \o SubSeq(arr, i + 2, Len(arr))

\* arr[i] = x: writing past the end leaves holes (undefined elements)
SetIndex(arr, i, x) ==
    IF i < Len(arr) THEN [arr EXCEPT ![i + 1] = x]
    ELSE arr \o [j \in 1..(i - Len(arr)) |-> Undefined] \o <<x>>

(***************************************************************************)
(* Decimal index segments: String(n) and the library's isInteger / ~~key    *)
(***************************************************************************)
IndexSegs == <<"0", "1", "2", "3", "4", "5", "6", "7", "8", "9">>

\* `${target.length}`
NumToSeg(n) == IndexSegs[n + 1]

\* fast-json-patch isInteger(key)
IsInteger(seg) == \E i \in 1..Len(IndexSegs) : IndexSegs[i] = seg

\* ~~key for a key that isInteger
SegToNum(seg) == (CHOOSE i \in 1..Len(IndexSegs) : IndexSegs[i] = seg) - 1

(***************************************************************************)
(* Schema positions.  The patch library walks a path through plain          *)
(* JavaScript values; the position reached tells whether the value there is *)
(* an object, an array or a primitive in a schema-shaped document.          *)
(***************************************************************************)
ObjCtx == {"doc", "scenes", "scene", "vars", "node", "comp", "sub", "action",
           "assets", "asset", "meta"}
ArrCtx == {"nodes", "pos", "comps", "subs", "actions", "pvars"}

JType(ctx) == IF ctx \in ObjCtx THEN "obj" ELSE IF ctx \in ArrCtx THEN "arr" ELSE "prim"

ChildCtx(ctx, seg) ==
    CASE ctx = "doc" ->
            (CASE seg = "scenes" -> "scenes"
               [] seg = "assets" -> "assets"
               [] OTHER -> "prim")
      [] ctx = "scenes" -> "scene"
      [] ctx = "scene" ->
            (CASE seg = "variables" -> "vars"
               [] seg = "nodes" -> "nodes"
               [] seg = "subscriptions" -> "subs"
               [] OTHER -> "prim")
      [] ctx = "nodes" -> "node"
      [] ctx = "node" ->
            (CASE seg = "position" -> "pos"
               [] seg = "components" -> "comps"
               [] OTHER -> "prim")
      [] ctx = "comps" -> "comp"
      [] ctx = "subs" -> "sub"
      [] ctx = "sub" -> IF seg = "actions" THEN "actions" ELSE "prim"
      [] ctx = "actions" -> "action"
      [] ctx = "action" -> IF seg = "persistVars" THEN "pvars" ELSE "prim"
      [] ctx = "assets" -> "asset"
      [] ctx = "asset" -> IF seg = "metadata" THEN "meta" ELSE "prim"
      [] OTHER -> "prim"

\* The property key a path segment names: a scene id is kept as the sequence
\* of its "/"-free parts, so one segment names the one-part id <<seg>>.
KeyOf(ctx, seg) == IF ctx = "scenes" THEN <<seg>> ELSE seg

\* An element of an array of objects that is a hole (undefined).
IsHole(ctx, x) == JType(ctx) = "obj" /\ x = Undefined

(***************************************************************************)
(* fast-json-patch applyOperation / applyPatch, called without              *)
(* validateOperation (src/src/vite-env.d.ts:626): objOps / arrOps on the    *)
(* value reached by the path; a TypeError is raised when the walk reaches   *)
(* undefined or when `op` names no operation.                               *)
(***************************************************************************)
Threw == [threw |-> TRUE, v |-> Undefined]
Done(x) == [threw |-> FALSE, v |-> x]

ArrOps(arr, seg, p) ==
    LET int == seg = "-" \/ IsInteger(seg)
        i   == IF seg = "-" THEN Len(arr) ELSE IF IsInteger(seg) THEN SegToNum(seg) ELSE 0
    IN CASE p.op = "add"     -> Done(IF int THEN Splice0(arr, i, p.value) ELSE arr)
         [] p.op = "remove"  -> Done(Splice1(arr, i))
         [] p.op = "replace" -> Done(IF int THEN SetIndex(arr, i, p.value) ELSE arr)
         [] OTHER            -> Threw

ObjOps(o, key, p) ==
    CASE p.op \in {"add", "replace"} -> Done(PutKey(o, key, p.value))
      [] p.op = "remove"             -> Done(DelKey(o, key))
      [] OTHER                       -> Threw

RECURSIVE ApplyAt(_, _, _, _)
ApplyAt(v, ctx, keys, p) ==
    LET seg  == Head(keys)
        rest == Tail(keys)
        sub  == ChildCtx(ctx, seg)
    IN CASE JType(ctx) = "arr" ->
              IF rest = <<>> THEN ArrOps(v, seg, p)
              ELSE IF IsInteger(seg) /\ SegToNum(seg) < Len(v)
                      /\ ~IsHole(sub, v[SegToNum(seg) + 1])
                   THEN LET r == ApplyAt(v[SegToNum(seg) + 1], sub, rest, p)
                        IN IF r.threw THEN Threw
                           ELSE Done([v EXCEPT ![SegToNum(seg) + 1] = r.v])
                   ELSE Threw
         [] JType(ctx) = "obj" ->
              IF rest = <<>> THEN ObjOps(v, KeyOf(ctx, seg), p)
              ELSE IF Has(v, KeyOf(ctx, seg))
                   THEN LET r == ApplyAt(v[KeyOf(ctx, seg)], sub, rest, p)
                        IN IF r.threw THEN Threw
                           ELSE Done([v EXCEPT ![KeyOf(ctx, seg)] = r.v])
                   ELSE Threw
         [] OTHER ->
              \* a primitive: reading a property gives undefined; deleting one
              \* is silent; assigning one raises (module code is strict)
              IF rest = <<>> /\ p.op = "remove" THEN Done(v) ELSE Threw

\* One operation on the working document.  `clone` is the object that was
\* passed in (mutated in place); a root operation (path "") only rebinds the
\* library's local `document`, which the caller never reads.
ApplyOperation(st, p) ==
    IF st.threw THEN st
    ELSE IF p.path = <<>> THEN
        CASE p.op \in {"add", "replace"} ->
                [st EXCEPT !.cur = p.value, !.detached = TRUE, !.isNull = FALSE]
          [] p.op = "remove" -> [st EXCEPT !.detached = TRUE, !.isNull = TRUE]
          [] OTHER -> st
    ELSE IF st.isNull THEN [st EXCEPT !.threw = TRUE]
    ELSE LET r == ApplyAt(st.cur, "doc", p.path, p)
         IN IF r.threw THEN [st EXCEPT !.threw = TRUE]
            ELSE [st EXCEPT !.cur = r.v,
                            !.clone = IF st.detached THEN st.clone ELSE r.v]

RECURSIVE ApplyOperations(_, _)
ApplyOperations(st, patches) ==
    IF patches = <<>> THEN st
    ELSE ApplyOperations(ApplyOperation(st, Head(patches)), Tail(patches))

\* applyJsonPatch(clonedDoc, patches): [threw, clone] where clone is the
\* in-place mutated argument
ApplyJsonPatch(document, patches) ==
    ApplyOperations([threw |-> FALSE, clone |-> document, cur |-> document,
                     detached |-> FALSE, isNull |-> FALSE], patches)

(***************************************************************************)
(* Zod schemas (validator.ts, bundled in src/src/vite-env.d.ts:495-600).    *)
(* XIssues(v, at) is the set of issue paths safeParse reports for v at      *)
(* path `at`; XClean(v) is the parsed output, in which z.object() has        *)
(* dropped every key the schema does not declare.                           *)
(***************************************************************************)
\* /^#[0-9A-Fa-f]{6}$/ on the colour strings of the model
HexColors == {"#111111", "#999999", "#ff0000"}
MatchesHexColor(c) == c \in HexColors

\* z.string().url() on the url strings of the model
WellFormedUrls == {"https://cdn.example/m1.glb", "https://cdn.example/t1.png"}
IsUrl(u) == u \in WellFormedUrls

\* the empty string, as a scene id (one empty part)
EmptyId == <<"">>

Bad(cond, at, key) == IF cond THEN {Append(at, key)} ELSE {}
Seg(i) == NumToSeg(i - 1)

ComponentKeys(c) ==
    CASE c.type = "clickable"   -> {"type", "event"}
      [] c.type = "rotate"      -> {"type", "axis", "speed"}
      [] c.type = "keybind"     -> {"type", "key", "event"}
      [] c.type = "collectible" -> {"type", "event"}
      [] OTHER -> {}

ComponentIssues(c, at) ==
    IF ~Has(c, "type") \/ ComponentKeys(c) = {} THEN {Append(at, "type")}
    ELSE UNION { Bad(~Has(c, k) \/ (k \in {"event", "key"} /\ Has(c, k) /\ c[k] = ""),
                     at, k) : k \in ComponentKeys(c) \ {"type"} }

ComponentClean(c) == Strip(c, ComponentKeys(c))

ActionKeys(a) ==
    CASE a.type = "increment"        -> {"type", "target", "value"}
      [] a.type = "destroy_node"     -> {"type", "target"}
      [] a.type = "transition_scene" -> {"type", "to", "persistVars"}
      [] OTHER -> {}

ActionIssues(a, at) ==
    IF ~Has(a, "type") \/ ActionKeys(a) = {} THEN {Append(at, "type")}
    ELSE CASE a.type = "increment" ->
                Bad(~Has(a, "target") \/ (Has(a, "target") /\ a.target = ""), at, "target")
                \cup Bad(~Has(a, "value"), at, "value")
           [] a.type = "destroy_node" ->
                Bad(~Has(a, "target") \/ (Has(a, "target") /\ a.target = ""), at, "target")
           [] OTHER ->
                Bad(~Has(a, "to") \/ (Has(a, "to") /\ a.to = EmptyId), at, "to")

ActionClean(a) == Strip(a, ActionKeys(a))

SubscriptionKeys == {"id", "on", "when", "actions"}

SubscriptionIssues(s, at) ==
    IF s = Undefined THEN {at}
    ELSE Bad(~Has(s, "id") \/ (Has(s, "id") /\ s.id = ""), at, "id")
         \cup Bad(~Has(s, "on") \/ (Has(s, "on") /\ s.on = ""), at, "on")
         \cup Bad(~Has(s, "actions"), at, "actions")
         \cup (IF Has(s, "actions")
               THEN UNION { ActionIssues(s.actions[i], at \o <<"actions", Seg(i)>>)
                            : i \in 1..Len(s.actions) }
               ELSE {})

SubscriptionClean(s) ==
    [k \in (DOMAIN s) \cap SubscriptionKeys |->
        IF k = "actions" THEN [i \in 1..Len(s.actions) |-> ActionClean(s.actions[i])]
        ELSE s[k]]

AssetKeys == {"type", "url", "metadata"}

AssetDefinitionIssues(a, at) ==
    Bad(~Has(a, "type") \/ (Has(a, "type") /\ a.type \notin {"glb", "texture"}), at, "type")
    \cup Bad(~Has(a, "url") \/ (Has(a, "url") /\ ~IsUrl(a.url)), at, "url")

AssetDefinitionClean(a) == Strip(a, AssetKeys)

\* SceneNodeSchema declares no `texture` key
SceneNodeKeys == {"id", "type", "primitive", "asset", "position", "color",
                  "size", "intensity", "components"}

SceneNodeIssues(n, at) ==
    IF n = Undefined THEN {at}
    ELSE Bad(~Has(n, "id") \/ (Has(n, "id") /\ n.id = ""), at, "id")
         \cup Bad(~Has(n, "type") \/ (Has(n, "type") /\ n.type \notin {"mesh", "light"}),
                  at, "type")
         \cup Bad(Has(n, "primitive") /\ n.primitive \notin {"box", "sphere", "ground"},
                  at, "primitive")
         \cup Bad(~Has(n, "position") \/ (Has(n, "position") /\ Len(n.position) # 3),
                  at, "position")
         \cup Bad(Has(n, "color") /\ ~MatchesHexColor(n.color), at, "color")
         \cup Bad(Has(n, "size") /\ ~(n.size > 0), at, "size")
         \cup Bad(Has(n, "intensity") /\ ~(n.intensity >= 0 /\ n.intensity <= 10),
                  at, "intensity")
         \cup (IF Has(n, "components")
               THEN UNION { ComponentIssues(n.components[i], at \o <<"components", Seg(i)>>)
                            : i \in 1..Len(n.components) }
               ELSE {})

SceneNodeClean(n) ==
    [k \in (DOMAIN n) \cap SceneNodeKeys |->
        IF k = "components"
        THEN [i \in 1..Len(n.components) |-> ComponentClean(n.components[i])]
        ELSE n[k]]

SceneDataKeys == {"variables", "nodes", "subscriptions"}

SceneDataIssues(sc, at) ==
    Bad(~Has(sc, "nodes"), at, "nodes")
    \cup (IF Has(sc, "nodes")
          THEN UNION { SceneNodeIssues(sc.nodes[i], at \o <<"nodes", Seg(i)>>)
                       : i \in 1..Len(sc.nodes) }
          ELSE {})
    \cup (IF Has(sc, "subscriptions")
          THEN UNION { SubscriptionIssues(sc.subscriptions[i],
                                          at \o <<"subscriptions", Seg(i)>>)
                       : i \in 1..Len(sc.subscriptions) }
          ELSE {})

SceneDataClean(sc) ==
    [k \in (DOMAIN sc) \cap SceneDataKeys |->
        CASE k = "nodes" -> [i \in 1..Len(sc.nodes) |-> SceneNodeClean(sc.nodes[i])]
          [] k = "subscriptions" ->
                [i \in 1..Len(sc.subscriptions) |-> SubscriptionClean(sc.subscriptions[i])]
          [] OTHER -> sc[k]]

GameDocumentKeys == {"activeScene", "scenes", "assets"}

GameDocumentIssues(d) ==
    Bad(~Has(d, "activeScene") \/ (Has(d, "activeScene") /\ d.activeScene = EmptyId),
        <<>>, "activeScene")
    \cup Bad(~Has(d, "scenes"), <<>>, "scenes")
    \cup (IF Has(d, "scenes")
          THEN UNION { SceneDataIssues(d.scenes[id], <<"scenes">> \o id)
                       : id \in DOMAIN d.scenes }
          ELSE {})
    \cup (IF Has(d, "assets")
          THEN UNION { AssetDefinitionIssues(d.assets[k], <<"assets", k>>)
                       : k \in DOMAIN d.assets }
          ELSE {})

GameDocumentClean(d) ==
    [k \in (DOMAIN d) \cap GameDocumentKeys |->
        CASE k = "scenes" -> [id \in DOMAIN d.scenes |-> SceneDataClean(d.scenes[id])]
          [] k = "assets" ->
                [a \in DOMAIN d.assets |-> AssetDefinitionClean(d.assets[a])]
          [] OTHER -> d[k]]

\* the result object of safeParse, from the issues found
SafeParseResult(d, issues) ==
    IF issues = {}
    THEN [success |-> TRUE, data |-> GameDocumentClean(d), issues |-> {}]
    ELSE [success |-> FALSE, data |-> Undefined, issues |-> issues]

\* GameDocumentSchema.safeParse(d)
GameDocumentSchema(d) == SafeParseResult(d, GameDocumentIssues(d))

(***************************************************************************)
(* validatePatches(doc, patches)  (src/src/vite-env.d.ts:617-659)           *)
(***************************************************************************)
\* lines 629-651: the result of safeParse becomes the validation result
ValidationResult(result) ==
    IF ~result.success
    THEN [success |-> FALSE, data |-> Undefined,
          error |-> [kind |-> "Validation failed", paths |-> result.issues]]
    ELSE [success |-> TRUE, data |-> result.data,
          error |-> [kind |-> "", paths |-> {}]]

\* a validator that accepts whatever the patch library produced
ValidateAppliedUnchecked(applied) ==
    IF applied.threw
    THEN [success |-> FALSE, data |-> Undefined,
          error |-> [kind |-> "Patch application failed", paths |-> {}]]
    ELSE [success |-> TRUE, data |-> applied.clone, error |-> [kind |-> "", paths |-> {}]]

\* lines 652-658: the catch block, else the parse of the patched clone
ValidateApplied(applied) ==
    IF applied.threw
    THEN [success |-> FALSE, data |-> Undefined,
          error |-> [kind |-> "Patch application failed", paths |-> {}]]
    ELSE ValidationResult(GameDocumentSchema(applied.clone))

\* applyJsonPatch works on structuredClone(doc)
ValidatePatches(d, patches) == ValidateApplied(ApplyJsonPatch(d, patches))

(***************************************************************************)
(* RuntimeState  (src/src/core/state/RuntimeState.ts)                       *)
(***************************************************************************)
\* a seeding that takes the declared default whenever there is one
InitVariablesOverwriting(vs, defaults) ==
    [k \in (DOMAIN vs) \cup (DOMAIN defaults) |->
        IF k \in DOMAIN defaults THEN defaults[k] ELSE vs[k]]

\* initVariables(vars): never overwrites a variable that is present
InitVariables(vs, defaults) ==
    [k \in (DOMAIN vs) \cup (DOMAIN defaults) |->
        IF k \in DOMAIN vs THEN vs[k] ELSE defaults[k]]

\* getVariable(key): variables.get(key) ?? 0
GetVariable(vs, key) == IF key \in DOMAIN vs THEN vs[key] ELSE 0

\* setVariable(key, value): [variables, events emitted]
SetVariable(vs, key, value) ==
    IF key \in DOMAIN vs /\ vs[key] = value
    THEN [variables |-> vs, events |-> <<>>]
    ELSE [variables |-> PutKey(vs, key, value),
          events |-> <<[key |-> key, value |-> value]>>]

(***************************************************************************)
(* SceneReconciler  (src/src/core/reconciler/SceneReconciler.ts:199-534)    *)
(*                                                                         *)
(* rec.objects maps an object reference to the Babylon object (a record of *)
(* the properties the reconciler reads or writes); rec.nodeMap maps a node *)
(* id to a reference; rec.materials holds the scene materials `mat_<id>`;  *)
(* rec.tasks are the loadAsset calls suspended at their await.             *)
(***************************************************************************)
NoRec == [nodeMap |-> <<>>, objects |-> <<>>, materials |-> <<>>, leaked |-> {},
          loadingNodes |-> <<>>, tasks |-> {}, assetCache |-> <<>>,
          created |-> {}, disposed |-> {}, fetches |-> <<>>, threw |-> FALSE,
          ran |-> FALSE, found |-> FALSE]

\* a reference no retained object has: the object's name and a serial
NewRef(objects, name) ==
    <<name, CHOOSE n \in 1..(Cardinality(DOMAIN objects) + 1) :
                /\ <<name, n>> \notin DOMAIN objects
                /\ \A m \in 1..(n - 1) : <<name, m>> \in DOMAIN objects>>

\* MeshBuilder.CreateBox / CreateSphere / CreateGround, a glTF root
NewMesh(kind, name) ==
    [kind |-> kind, name |-> name, position |-> <<0, 0, 0>>, scaling |-> 1,
     isVisible |-> TRUE, material |-> "none", disposed |-> FALSE, clicks |-> <<>>]

\* new HemisphericLight(id, ...): no position, no scaling, no isVisible
NewLight(name, intensity) ==
    [kind |-> "light", name |-> name, intensity |-> intensity, disposed |-> FALSE]

\* the placeholder box with its own `${id}_loading` material (grey, alpha .5)
NewPlaceholder(name) ==
    PutKey([NewMesh("placeholder", name) EXCEPT !.material = "loading"],
           "loadingColor", "grey")

DisposeObject(objects, r) == [objects EXCEPT ![r] = PutKey(@, "disposed", TRUE)]

\* JavaScript truthiness of an optional string field
Truthy(o, k) == Has(o, k) /\ o[k] # ""

\* Color3.FromHexString: anything that is not "#" + 6 characters is black
FromHexString(c) == IF MatchesHexColor(c) THEN c ELSE "#000000"

\* lines 444-472: instantiate the cached container and swap the map entry
InstantiateAsset(R, url, nodeId, ph) ==
    IF R.assetCache[url] = "model"
    THEN LET root == NewRef(R.objects, nodeId)
             obj  == [NewMesh("model", nodeId) EXCEPT
                         !.position = R.objects[ph].position]
         IN [R EXCEPT !.objects = PutKey(DisposeObject(@, ph), root, obj),
                      !.nodeMap = PutKey(@, nodeId, root),
                      !.loadingNodes = DelKey(@, nodeId),
                      !.created = @ \cup {root},
                      !.disposed = @ \cup {ph}]
    ELSE [R EXCEPT !.loadingNodes = DelKey(@, nodeId)]

\* loadAsset up to its await (lines 421-442): a cached container is used at
\* once, otherwise a fetch is issued and the call suspends
LoadAsset(R, url, nodeId, ph) ==
    IF url \in DOMAIN R.assetCache
    THEN InstantiateAsset(R, url, nodeId, ph)
    ELSE [R EXCEPT !.tasks = @ \cup {[url |-> url, nodeId |-> nodeId, placeholder |-> ph]},
                   !.fetches = Append(@, url)]

\* createAssetNode (lines 398-419): [R, item]
CreateAssetNode(R, node, url) ==
    LET ph == NewRef(R.objects, node.id)
        R1 == [R EXCEPT !.objects = PutKey(@, ph, NewPlaceholder(node.id)),
                        !.loadingNodes = PutKey(@, node.id, url),
                        !.created = @ \cup {ph}]
    IN [R |-> LoadAsset(R1, url, node.id, ph), item |-> ph]

NewObject(R, obj) ==
    LET r == NewRef(R.objects, obj.name)
    IN [R |-> [R EXCEPT !.objects = PutKey(@, r, obj), !.created = @ \cup {r}],
        item |-> r]

\* createNode (lines 359-396): [R, item]
CreateNode(R, node, d) ==
    IF node.type = "light"
    THEN NewObject(R, NewLight(node.id, IF Has(node, "intensity") THEN node.intensity ELSE 1))
    ELSE IF Truthy(node, "asset") /\ Has(d, "assets") /\ Has(d.assets, node.asset)
            /\ d.assets[node.asset].type = "glb"
    THEN CreateAssetNode(R, node, d.assets[node.asset].url)
    ELSE NewObject(R, NewMesh(IF Has(node, "primitive") /\ node.primitive \in {"ground", "sphere"}
                              THEN node.primitive ELSE "box", node.id))

\* attachComponents / attachClickable: one registered pick action per
\* clickable component
AttachComponents(obj, node) ==
    LET RECURSIVE Events(_)
        Events(cs) == IF cs = <<>> THEN <<>>
                      ELSE (IF Head(cs).type = "clickable" THEN <<Head(cs).event>> ELSE <<>>)
                           \o Events(Tail(cs))
    IN PutKey(obj, "clicks", (IF Has(obj, "clicks") THEN obj.clicks ELSE <<>>)
                             \o Events(node.components))

\* updateMaterial (lines 493-520): the material named mat_<id> after the call
UpdateMaterial(materials, node, d) ==
    LET mat == IF node.id \in DOMAIN materials THEN materials[node.id]
               ELSE [diffuseColor |-> "#ffffff", diffuseTexture |-> "none"]
    IN IF Truthy(node, "texture") /\ Has(d, "assets")
       THEN IF Has(d.assets, node.texture) /\ d.assets[node.texture].type = "texture"
            THEN [diffuseColor |-> "#ffffff", diffuseTexture |-> d.assets[node.texture].url]
            ELSE mat
       ELSE IF Truthy(node, "color")
            THEN [diffuseColor |-> FromHexString(node.color), diffuseTexture |-> "none"]
            ELSE mat

\* step 2, updatePosition (lines 486-491)
UpdatePosition(o, node) ==
    IF Has(o, "position") THEN [o EXCEPT !.position = node.position] ELSE o

\* step 3: `node.type === 'mesh' && (node.color || node.texture)`
UsesMaterial(node) ==
    node.type = "mesh" /\ (Truthy(node, "color") \/ Truthy(node, "texture"))

AssignMaterial(o, node) == IF UsesMaterial(node) THEN PutKey(o, "material", "mat") ELSE o

\* step 4: light intensity
UpdateIntensity(o, node) ==
    IF node.type = "light" /\ Has(node, "intensity")
    THEN PutKey(o, "intensity", node.intensity) ELSE o

\* step 5: (item as AbstractMesh).scaling.setAll raises on an object without
\* a scaling vector
ScalingRaises(o, node) == node.type = "mesh" /\ Has(node, "size") /\ ~Has(o, "scaling")

UpdateScaling(o, node) ==
    IF node.type = "mesh" /\ Has(node, "size") /\ Has(o, "scaling")
    THEN [o EXCEPT !.scaling = node.size] ELSE o

\* step 6: only a mesh node has its visibility assigned
UpdateVisibility(o, node, destroyed) ==
    IF node.type = "mesh" /\ ~ScalingRaises(o, node)
    THEN PutKey(o, "isVisible", node.id \notin destroyed) ELSE o

UpdateObject(o, node, destroyed) ==
    UpdateVisibility(
        UpdateScaling(UpdateIntensity(AssignMaterial(UpdatePosition(o, node), node), node),
                      node),
        node, destroyed)

\* the update steps 2-6 of the loop body (lines 310-331) on object `item`
UpdateNode(R, item, node, d, destroyed) ==
    [R EXCEPT !.objects = [@ EXCEPT ![item] = UpdateObject(@, node, destroyed)],
              !.materials = IF UsesMaterial(node)
                            THEN PutKey(@, node.id, UpdateMaterial(@, node, d)) ELSE @,
              !.threw = ScalingRaises(R.objects[item], node)]

\* step 1 after createNode returned c = [R, item]: nodeMap.set, then
\* attachComponents for a mesh node with components
Register(c, node) ==
    [c.R EXCEPT !.nodeMap = PutKey(@, node.id, c.item),
                !.objects = IF node.type = "mesh" /\ Has(node, "components")
                            THEN [@ EXCEPT ![c.item] = AttachComponents(@, node)]
                            ELSE @]

UpdateCreated(c, node, d, destroyed) ==
    UpdateNode(Register(c, node), c.item, node, d, destroyed)

\* an iteration that builds a new object for every node it visits
VisitNodeAnew(R, node, d, destroyed) ==
    UpdateCreated(CreateNode(R, node, d), node, d, destroyed)

\* an iteration that attaches the components in every pass
VisitNodeReattaching(R, node, d, destroyed) ==
    IF node.id \in DOMAIN R.nodeMap
    THEN UpdateCreated([R |-> R, item |-> R.nodeMap[node.id]], node, d, destroyed)
    ELSE UpdateCreated(CreateNode(R, node, d), node, d, destroyed)

\* one iteration of `for (const node of sceneData.nodes)` (lines 294-332)
VisitNode(R, node, d, destroyed) ==
    IF node.id \in DOMAIN R.nodeMap
    THEN UpdateNode(R, R.nodeMap[node.id], node, d, destroyed)
    ELSE UpdateCreated(CreateNode(R, node, d), node, d, destroyed)

RECURSIVE VisitNodes(_, _, _, _)
VisitNodes(R, nodes, d, destroyed) ==
    IF nodes = <<>> \/ R.threw THEN R
    ELSE VisitNodes(VisitNode(R, Head(nodes), d, destroyed), Tail(nodes), d, destroyed)

\* a sweep that disposes nothing
KeepOrphans(R, visitedIds) == R

\* lines 334-340: dispose and forget every entry that was not visited
DisposeOrphans(R, visitedIds) ==
    LET orphans == { R.nodeMap[id] : id \in (DOMAIN R.nodeMap) \ visitedIds }
    IN [R EXCEPT !.objects = [r \in DOMAIN @ |->
                                 IF r \in orphans THEN PutKey(@[r], "disposed", TRUE) ELSE @[r]],
                 !.nodeMap = [id \in (DOMAIN @) \cap visitedIds |-> @[id]],
                 !.disposed = @ \cup orphans]

\* the orphan sweep is reached only when the loop raised nothing
SweepOrphans(R, nodes) ==
    IF R.threw THEN R ELSE DisposeOrphans(R, { nodes[i].id : i \in 1..Len(nodes) })

VisitScene(R, nodes, d, destroyed) ==
    SweepOrphans(VisitNodes([R EXCEPT !.ran = TRUE, !.found = TRUE], nodes, d, destroyed),
                 nodes)

\* a pass that sweeps the map when the active scene is missing
ReconcilePassSweeping(R, d, destroyed) ==
    IF ~Has(d.scenes, d.activeScene)
    THEN DisposeOrphans([R EXCEPT !.ran = TRUE, !.found = FALSE], {})
    ELSE VisitScene(R, d.scenes[d.activeScene].nodes, d, destroyed)

\* reconcile(doc) (lines 285-341)
ReconcilePass(R, d, destroyed) ==
    IF ~Has(d.scenes, d.activeScene)
    THEN [R EXCEPT !.ran = TRUE, !.found = FALSE]
    ELSE VisitScene(R, d.scenes[d.activeScene].nodes, d, destroyed)

\* The objects the reconciler can still reach: through the map or through a
\* suspended load.
Retained(R) ==
    { r \in DOMAIN R.objects :
        \/ \E id \in DOMAIN R.nodeMap : R.nodeMap[id] = r
        \/ \E t \in R.tasks : t.placeholder = r }

\* An object nothing refers to is never touched again: if it was not disposed
\* it stays in the Babylon scene for good, and only its name and kind are kept.
Collect(R) ==
    [R EXCEPT !.objects = [r \in Retained(R) |-> @[r]],
              !.leaked = @ \cup { [name |-> R.objects[r].name, kind |-> R.objects[r].kind] :
                                  r \in { x \in (DOMAIN R.objects) \ Retained(R) :
                                          ~R.objects[x].disposed } }]

\* the per-operation observations, cleared when an operation starts
Fresh(R) == [R EXCEPT !.created = {}, !.disposed = {}, !.fetches = <<>>,
                      !.threw = FALSE, !.ran = FALSE, !.found = FALSE]

(***************************************************************************)
(* One call into the program is a function on the record W of everything   *)
(* it can read or write.  W.threw: an exception is propagating, the rest   *)
(* of the call is skipped.  W.notified counts store notifications, W.events *)
(* lists the runtime:variable_changed / runtime:reset DOM events emitted.   *)
(* W.held is what the document object the store held when the call started  *)
(* reads now (a caller may have kept a reference to it); W.swapped: the      *)
(* store now holds another object.                                          *)
(***************************************************************************)
World == [doc |-> doc, variables |-> variables, isPlaying |-> isPlaying,
          destroyedNodes |-> destroyedNodes, mounted |-> mounted,
          rec |-> Fresh(rec), notified |-> 0, events |-> <<>>, threw |-> FALSE,
          held |-> doc, swapped |-> FALSE]

\* Object identity of a document: "held" is the object the store held when
\* the call started.  A copy that is the very object it was made from
Aliased(object) == object

\* structuredClone(x): a new object, whatever x is
StructuredClone(object) == "clone"

\* writes made through a reference to `object` leave it reading `value`
Assign(W, object, value) ==
    IF object = "held" THEN [W EXCEPT !.held = value] ELSE W

\* reconciler.reconcile(doc) on the world
WithRec(W, R) == [W EXCEPT !.rec = R, !.threw = R.threw]

WReconcile(W) ==
    IF W.threw THEN W
    ELSE WithRec(W, ReconcilePass(W.rec, W.doc, W.destroyedNodes))

\* lines 41-44: seed the variables of the new active scene
SeedVariables(vs, d) ==
    IF Has(d.scenes, d.activeScene) /\ Has(d.scenes[d.activeScene], "variables")
    THEN InitVariables(vs, d.scenes[d.activeScene].variables)
    ELSE vs

\* set({ doc }) calls every subscriber; the editor's one reconciles
\* (EditorApp.tsx:135-137)
NotifySubscribers(W) == IF W.mounted THEN WReconcile(W) ELSE W

\* setDoc(doc)  (GameDocumentStore.ts:40-46)
WSetDocObject(W, object, d) ==
    IF W.threw THEN W
    ELSE NotifySubscribers([W EXCEPT !.variables = SeedVariables(@, d), !.doc = d,
                                     !.notified = @ + 1,
                                     !.swapped = object # "held"])

\* setDoc(doc) with an object made by the caller
WSetDoc(W, d) == WSetDocObject(W, "given", d)

\* lines 50-51: updater(draft), setDoc(draft)
WCommitDraft(W, draft, d) == WSetDocObject(Assign(W, draft, d), draft, d)

\* patchDoc(updater)  (GameDocumentStore.ts:48-52); the updaters of the
\* program assign draft.activeScene
WPatchDoc(W, targetScene) ==
    IF W.threw THEN W
    ELSE WCommitDraft(W, StructuredClone("held"),
                      [W.doc EXCEPT !.activeScene = targetScene])

(***************************************************************************)
(* applyPatch(patches)  (GameDocumentStore.ts:54-127)                       *)
(***************************************************************************)
\* path.startsWith('/nodes' | '/variables' | '/subscriptions'): decided by the
\* first segment, for the segments of the model
ShorthandSegments == {"nodes", "variables", "subscriptions"}
StartsWithShorthand(path) == path # <<>> /\ Head(path) \in ShorthandSegments

\* target = target[seg] on plain JavaScript values (lines 79-86)
RECURSIVE Navigate(_, _, _)
Navigate(v, ctx, segs) ==
    IF segs = <<>> THEN [defined |-> TRUE, ctx |-> ctx, v |-> v]
    ELSE LET seg == Head(segs)
             sub == ChildCtx(ctx, seg)
             undef == [defined |-> FALSE, ctx |-> "prim", v |-> Undefined]
         IN CASE JType(ctx) = "obj" ->
                    IF Has(v, KeyOf(ctx, seg))
                    THEN Navigate(v[KeyOf(ctx, seg)], sub, Tail(segs)) ELSE undef
              [] JType(ctx) = "arr" ->
                    IF IsInteger(seg) /\ SegToNum(seg) < Len(v)
                       /\ ~IsHole(sub, v[SegToNum(seg) + 1])
                    THEN Navigate(v[SegToNum(seg) + 1], sub, Tail(segs)) ELSE undef
              [] OTHER -> undef

\* lines 61-97: one patch of `patches.map(...)`
ResolvePatch(currentDoc, p) ==
    LET path0 == IF Has(p, "path") THEN p.path ELSE <<>>
        path1 == IF StartsWithShorthand(path0)
                 THEN <<"scenes">> \o currentDoc.activeScene \o path0
                 ELSE path0
        isAppend == path1 # <<>> /\ path1[Len(path1)] = "-"
                    /\ Has(p, "op") /\ p.op = "add"
        parent == SubSeq(path1, 1, Len(path1) - 1)
        target == Navigate(currentDoc, "doc", SelectSeq(parent, LAMBDA x : x # ""))
        path2 == IF isAppend /\ target.defined /\ JType(target.ctx) = "arr"
                 THEN parent \o <<NumToSeg(Len(target.v))>>
                 ELSE path1
    IN PutKey(IF Has(p, "op") THEN p ELSE PutKey(p, "op", "undefined"), "path", path2)

\* a resolution in which an append sees the appends before it in the batch
ResolvePatchesRunning(currentDoc, patches) ==
    [i \in 1..Len(patches) |->
        LET r == ResolvePatch(currentDoc, patches[i])
            before == Cardinality({ j \in 1..(i - 1) :
                         ResolvePatch(currentDoc, patches[j]).path = r.path })
        IN IF Has(patches[i], "path") /\ patches[i].path # <<>>
              /\ patches[i].path[Len(patches[i].path)] = "-"
              /\ r.path # <<>> /\ IsInteger(r.path[Len(r.path)])
           THEN [r EXCEPT !.path = SubSeq(r.path, 1, Len(r.path) - 1)
                            \o <<NumToSeg(SegToNum(r.path[Len(r.path)]) + before)>>]
           ELSE r]

ResolvePatches(currentDoc, patches) ==
    [i \in 1..Len(patches) |-> ResolvePatch(currentDoc, patches[i])]

NoError == [kind |-> "", paths |-> {}]

\* lines 104-126: reject, or commit the parsed document with setDoc
CommitValidated(W, validation) ==
    IF ~validation.success
    THEN [W |-> W, result |-> [success |-> FALSE, error |-> validation.error]]
    ELSE [W |-> WSetDoc(W, validation.data),
          result |-> [success |-> TRUE, error |-> NoError]]

\* validatePatches(currentDoc, resolved): the library mutates clonedDoc, the
\* structuredClone of the store's object (vite-env.d.ts:622-626)
WValidateAndCommit(W, resolved) ==
    CommitValidated(Assign(W, StructuredClone("held"),
                           ApplyJsonPatch(W.doc, resolved).clone),
                    ValidatePatches(W.doc, resolved))

\* [W, result]; reading currentDoc.activeScene of an undefined doc raises
WApplyPatch(W, patches) ==
    IF W.doc = Undefined
    THEN [W |-> [W EXCEPT !.threw = TRUE],
          result |-> [success |-> FALSE, error |-> NoError]]
    ELSE WValidateAndCommit(W, ResolvePatches(W.doc, patches))

(***************************************************************************)
(* EventBus.publish and executeAction                                       *)
(***************************************************************************)
\* getGame()  (GameDocumentStore.ts:132-134)
GetGame(W) == W.doc

\* a bus without the guard
NeverStopped(W) == FALSE

\* `if (!runtimeState.isPlaying) return;`  (EventBus.ts:100)
IsStopped(W) == ~W.isPlaying

\* runtimeState.setVariable(key, value) on the world
WSetVariable(W, key, value) ==
    LET r == SetVariable(W.variables, key, value)
    IN [W EXCEPT !.variables = r.variables, !.events = @ \o r.events]

\* an increment by the value the action had in the mounted document
WIncrementStale(W, action) ==
    WSetVariable(W, action.target, GetVariable(W.variables, action.target) + 1)

\* case 'increment'  (ActionExecutor.ts:18-22)
WIncrement(W, action) ==
    LET current == GetVariable(W.variables, action.target)
    IN WSetVariable(W, action.target, current + action.value)

\* case 'destroy_node'  (ActionExecutor.ts:24-37); '' stands for no target
WDestroyNode(W, action, payload) ==
    LET targetId == IF action.target = "$event.node"
                    THEN (IF Has(payload, "nodeId") THEN payload.nodeId ELSE "")
                    ELSE action.target
    IN IF targetId # ""
       THEN WReconcile([W EXCEPT !.destroyedNodes = @ \cup {targetId}])
       ELSE W

\* a restore that skips the entries whose captured value is 0
RECURSIVE RestorePersistedNonZero(_, _, _)
RestorePersistedNonZero(W, keys, persistedVars) ==
    IF keys = <<>> THEN W
    ELSE RestorePersistedNonZero(IF persistedVars[Head(keys)] = 0 THEN W
                                 ELSE WSetVariable(W, Head(keys), persistedVars[Head(keys)]),
                                 Tail(keys), persistedVars)

\* step 5: setVariable for each captured entry, in Object.entries order
RECURSIVE RestorePersisted(_, _, _)
RestorePersisted(W, keys, persistedVars) ==
    IF keys = <<>> THEN W
    ELSE RestorePersisted(WSetVariable(W, Head(keys), persistedVars[Head(keys)]),
                          Tail(keys), persistedVars)

\* the keys of persistedVars in insertion order: first occurrences only
RECURSIVE FirstOccurrences(_, _)
FirstOccurrences(keys, seen) ==
    IF keys = <<>> THEN <<>>
    ELSE IF Head(keys) \in seen THEN FirstOccurrences(Tail(keys), seen)
         ELSE <<Head(keys)>> \o FirstOccurrences(Tail(keys), seen \cup {Head(keys)})

\* step 1: the values captured for persistVars
PersistedVars(W, keys) ==
    [k \in { keys[i] : i \in 1..Len(keys) } |-> GetVariable(W.variables, k)]

PersistKeys(action) ==
    IF Has(action, "persistVars") THEN FirstOccurrences(action.persistVars, {}) ELSE <<>>

\* step 4: initVariables of the new scene, read from the updated document
InitNewScene(W, targetScene) ==
    IF Has(W.doc.scenes[targetScene], "variables")
    THEN [W EXCEPT !.variables = InitVariables(@, W.doc.scenes[targetScene].variables)]
    ELSE W

\* steps 4-6, after patchDoc returned (an exception raised in it propagates)
AfterPatchDoc(W, action, persistedVars, wasPlaying) ==
    IF W.threw THEN W
    ELSE WReconcile([RestorePersisted(InitNewScene(W, action.to), PersistKeys(action),
                                      persistedVars)
                     EXCEPT !.isPlaying = wasPlaying])

\* a transition that leaves the destroyed marks in place
WTransitionSceneKeepingMarks(W, action) ==
    IF ~Has(GetGame(W).scenes, action.to) THEN W
    ELSE AfterPatchDoc(WPatchDoc(W, action.to), action,
                       PersistedVars(W, PersistKeys(action)), W.isPlaying)

\* a transition that does not look its target up
WTransitionSceneUnchecked(W, action) ==
    IF ~Has(GetGame(W).scenes, action.to)
    THEN WReconcile(WPatchDoc([W EXCEPT !.destroyedNodes = {}], action.to))
    ELSE AfterPatchDoc(WPatchDoc([W EXCEPT !.destroyedNodes = {}], action.to), action,
                       PersistedVars(W, PersistKeys(action)), W.isPlaying)

\* case 'transition_scene'  (ActionExecutor.ts:39-86)
WTransitionScene(W, action) ==
    IF ~Has(GetGame(W).scenes, action.to) THEN W
    ELSE AfterPatchDoc(WPatchDoc([W EXCEPT !.destroyedNodes = {}], action.to), action,
                       PersistedVars(W, PersistKeys(action)), W.isPlaying)

\* an executor that raises on an action type it does not know
WExecuteActionStrict(W, action, payload) ==
    IF W.threw THEN W
    ELSE CASE action.type = "increment"        -> WIncrement(W, action)
           [] action.type = "destroy_node"     -> WDestroyNode(W, action, payload)
           [] action.type = "transition_scene" -> WTransitionScene(W, action)
           [] OTHER                            -> [W EXCEPT !.threw = TRUE]

\* executeAction(action, payload, reconciler)  (ActionExecutor.ts:12-91)
WExecuteAction(W, action, payload) ==
    IF W.threw THEN W
    ELSE CASE action.type = "increment"        -> WIncrement(W, action)
           [] action.type = "destroy_node"     -> WDestroyNode(W, action, payload)
           [] action.type = "transition_scene" -> WTransitionScene(W, action)
           [] OTHER                            -> W

\* executeActions(actions, payload)  (EventBus.ts:116-120)
RECURSIVE WExecuteActions(_, _, _)
WExecuteActions(W, actions, payload) ==
    IF actions = <<>> THEN W
    ELSE WExecuteActions(WExecuteAction(W, Head(actions), payload), Tail(actions), payload)

\* a bus that goes on with the subscriptions of the scene an action entered
RECURSIVE WDispatchFollowing(_, _, _, _)
WDispatchFollowing(W, subs, eventName, payload) ==
    IF subs = <<>> \/ W.threw THEN W
    ELSE LET X == IF Head(subs).on = eventName
                  THEN WExecuteActions(W, Head(subs).actions, payload) ELSE W
         IN WDispatchFollowing(X,
               IF X.doc.activeScene = W.doc.activeScene THEN Tail(subs)
               ELSE IF Has(X.doc.scenes[X.doc.activeScene], "subscriptions")
                    THEN X.doc.scenes[X.doc.activeScene].subscriptions ELSE <<>>,
               eventName, payload)

\* a bus that runs the first matching subscription only
WDispatchFirstMatch(W, subs, eventName, payload) ==
    IF \E i \in 1..Len(subs) : subs[i].on = eventName
    THEN WExecuteActions(W, subs[CHOOSE i \in 1..Len(subs) :
                                    /\ subs[i].on = eventName
                                    /\ \A j \in 1..(i - 1) : subs[j].on # eventName].actions,
                         payload)
    ELSE W

\* `for (const sub of sceneData.subscriptions)` over the array read at the start
RECURSIVE WDispatch(_, _, _, _)
WDispatch(W, subs, eventName, payload) ==
    IF subs = <<>> \/ W.threw THEN W
    ELSE WDispatch(IF Head(subs).on = eventName
                   THEN WExecuteActions(W, Head(subs).actions, payload) ELSE W,
                   Tail(subs), eventName, payload)

\* publish(eventName, payload)  (EventBus.ts:98-112)
WPublish(W, eventName, payload) ==
    IF IsStopped(W) THEN W
    ELSE LET d == GetGame(W)
         IN IF Has(d.scenes, d.activeScene) /\ Has(d.scenes[d.activeScene], "subscriptions")
            THEN WDispatch(W, d.scenes[d.activeScene].subscriptions, eventName, payload)
            ELSE W

(***************************************************************************)
(* PlayStopToggle.handleToggle  (src/unnamed/part_001:79-101)               *)
(***************************************************************************)
\* a reset that leaves the variables of the play session in place
WResetKeepingVariables(W) ==
    [W EXCEPT !.isPlaying = FALSE, !.destroyedNodes = {},
              !.events = Append(@, [reset |-> TRUE])]

\* runtimeState.reset()  (RuntimeState.ts:65-72)
WReset(W) ==
    [W EXCEPT !.isPlaying = FALSE, !.variables = <<>>, !.destroyedNodes = {},
              !.events = Append(@, [reset |-> TRUE])]

WHandleToggle(W) ==
    IF ~W.isPlaying
    THEN [W EXCEPT !.isPlaying = TRUE, !.variables = SeedVariables(@, W.doc)]
    ELSE WSetDoc(WReset(W), W.doc)

(***************************************************************************)
(* loadAsset after its await  (SceneReconciler.ts:432-483)                  *)
(***************************************************************************)
\* the fetch of task t resolved with a container (`outcome` is what it holds)
LoadResolved(R, t, outcome) ==
    LET R1 == [R EXCEPT !.tasks = @ \ {t}, !.assetCache = PutKey(@, t.url, outcome)]
    IN InstantiateAsset(R1, t.url, t.nodeId, t.placeholder)

\* the fetch of task t rejected: the placeholder's material turns red
LoadRejected(R, t) ==
    [R EXCEPT !.tasks = @ \ {t},
              !.objects = [@ EXCEPT ![t.placeholder] = PutKey(@, "loadingColor", "red")],
              !.loadingNodes = DelKey(@, t.nodeId)]

(***************************************************************************)
(* Documents and patch batches the store is driven with                    *)
(***************************************************************************)
L1 == <<"level_1">>
L2 == <<"level_2">>
L3 == <<"level", "3">>          \* the scene id "level/3"

TreeUrl == "https://cdn.example/m1.glb"
WoodUrl == "https://cdn.example/t1.png"

Sun  == [id |-> "sun", type |-> "light", position |-> <<0, 5, 0>>, intensity |-> 1]
Box  == [id |-> "box_1", type |-> "mesh", primitive |-> "box",
         position |-> <<0, 0, 0>>, color |-> "#111111"]
Coin == [id |-> "coin_1", type |-> "mesh", primitive |-> "sphere",
         position |-> <<1, 0, 0>>, color |-> "#ff0000", size |-> 1,
         components |-> <<[type |-> "clickable", event |-> "coin.clicked"]>>]
Tree == [id |-> "tree_1", type |-> "mesh", asset |-> "tree", position |-> <<3, 0, 0>>]
Boss == [id |-> "boss", type |-> "mesh", primitive |-> "sphere", position |-> <<0, 2, 0>>]
Crate == [id |-> "crate", type |-> "mesh", primitive |-> "box", position |-> <<2, 0, 0>>]
TexturedCrate == PutKey(Crate, "texture", "wood")

CollectCoin == [id |-> "collect_coin", on |-> "coin.clicked",
                actions |-> <<[type |-> "increment", target |-> "score", value |-> 1],
                              [type |-> "destroy_node", target |-> "$event.node"]>>]
CountTap    == [id |-> "count_tap", on |-> "coin.clicked",
                actions |-> <<[type |-> "increment", target |-> "taps", value |-> 1]>>]
LightsOut   == [id |-> "lights_out", on |-> "lights.out",
                actions |-> <<[type |-> "destroy_node", target |-> "sun"]>>]
Vanish      == [id |-> "vanish", on |-> "node.hit",
                actions |-> <<[type |-> "destroy_node", target |-> "$event.node"]>>]
NextLevel   == [id |-> "next_level", on |-> "level.done",
                actions |-> <<[type |-> "transition_scene", to |-> L2,
                               persistVars |-> <<"score">>]>>]
\* a transition whose target names no scene
LostLevel   == [id |-> "lost_level", on |-> "game.over",
                actions |-> <<[type |-> "transition_scene", to |-> <<"nowhere">>,
                               persistVars |-> <<"score">>]>>]

\* mockGameDoc in miniature: two levels, an asset manifest
LevelsDoc ==
    [activeScene |-> L1,
     scenes |-> (L1 :> [variables |-> [score |-> 0], nodes |-> <<Sun, Box>>,
                        subscriptions |-> <<CollectCoin>>]
                 @@ L2 :> [variables |-> [score |-> 5], nodes |-> <<Boss>>]),
     assets |-> [tree |-> [type |-> "glb", url |-> TreeUrl]]]

\* a document a writer loaded with setDoc: a node carries a texture key
TexturedDoc ==
    [activeScene |-> L1,
     scenes |-> (L1 :> [nodes |-> <<TexturedCrate, Box>>]
                 @@ L2 :> [nodes |-> <<Boss>>]),
     assets |-> [wood |-> [type |-> "texture", url |-> WoodUrl]]]

\* a document whose active scene id contains "/"
SlashDoc ==
    [activeScene |-> L3,
     scenes |-> (L3 :> [variables |-> [score |-> 0], nodes |-> <<Box>>]
                 @@ <<"level">> :> [nodes |-> <<Boss>>])]

\* the document the editor mounts with
GameDoc ==
    [activeScene |-> L1,
     scenes |-> (L1 :> [variables |-> [score |-> 0], nodes |-> <<Sun, Coin>>,
                        subscriptions |-> <<CollectCoin, CountTap, LightsOut, NextLevel, LostLevel>>]
                 @@ L2 :> [variables |-> [score |-> 5, lives |-> 3],
                           nodes |-> <<Boss>>]),
     assets |-> [tree |-> [type |-> "glb", url |-> TreeUrl]]]

\* a scene with an asset-backed node
ForestDoc ==
    [activeScene |-> L1,
     scenes |-> (L1 :> [nodes |-> <<Sun, Tree, Coin>>,
                        subscriptions |-> <<Vanish>>]),
     assets |-> [tree |-> [type |-> "glb", url |-> TreeUrl]]]

\* an asset-backed node that is sized and clickable
OrchardDoc ==
    [activeScene |-> L1,
     scenes |-> (L1 :> [nodes |-> <<Sun, [id |-> "tree_1", type |-> "mesh",
                                          asset |-> "tree", position |-> <<3, 0, 0>>,
                                          size |-> 2,
                                          components |-> <<[type |-> "clickable",
                                                            event |-> "node.hit"]>>]>>,
                        subscriptions |-> <<Vanish>>]),
     assets |-> [tree |-> [type |-> "glb", url |-> TreeUrl]]]

\* a subscription that leaves the scene before its last action, followed by
\* another one on the same event; the scene it enters listens to the event too
RelayDoc ==
    [activeScene |-> L1,
     scenes |-> (L1 :> [variables |-> [score |-> 0], nodes |-> <<Sun, Coin>>,
                        subscriptions |-> <<
                          [id |-> "open_door", on |-> "door.open",
                           actions |-> <<[type |-> "transition_scene", to |-> L2,
                                          persistVars |-> <<"score", "lives">>],
                                         [type |-> "increment", target |-> "taps",
                                          value |-> 1]>>],
                          [id |-> "door_bell", on |-> "door.open",
                           actions |-> <<[type |-> "increment", target |-> "combo",
                                          value |-> 1]>>]>>]
                 @@ L2 :> [variables |-> [score |-> 2, lives |-> 3], nodes |-> <<Boss>>,
                           subscriptions |-> <<
                             [id |-> "welcome", on |-> "door.open",
                              actions |-> <<[type |-> "increment", target |-> "score",
                                             value |-> 1]>>]>>])]

\* a document a writer loaded with setDoc: an action of a type the executor
\* does not know, followed by actions it knows; an increment by 0 of a
\* variable no scene declares
OddDoc ==
    [activeScene |-> L1,
     scenes |-> (L1 :> [variables |-> [score |-> 0], nodes |-> <<Sun, Coin>>,
                        subscriptions |->
                          <<[id |-> "mystery", on |-> "mystery.box",
                             actions |-> <<[type |-> "teleport", target |-> "moon"],
                                           [type |-> "increment", target |-> "taps",
                                            value |-> 1]>>],
                            [id |-> "after_mystery", on |-> "mystery.box",
                             actions |-> <<[type |-> "increment", target |-> "score",
                                            value |-> 1]>>],
                            [id |-> "idle", on |-> "idle.tick",
                             actions |-> <<[type |-> "increment", target |-> "combo",
                                            value |-> 0]>>]>>])]

Op(op, path, value) == [op |-> op, path |-> path, value |-> value]

\* the batches given to applyPatch, by name
Batch ==
    [RecolorBox     |-> <<Op("replace", <<"nodes", "1", "color">>, "#999999")>>,
     RecolorBoxBad  |-> <<Op("replace", <<"nodes", "1", "color">>, "red")>>,
     AppendCrate    |-> <<Op("add", <<"nodes", "-">>, Crate)>>,
     AppendToLevel2 |-> <<Op("add", <<"scenes", "level_2", "nodes", "-">>, Crate)>>,
     AppendTextured |-> <<Op("add", <<"nodes", "-">>, TexturedCrate)>>,
     AddTexture     |->
        <<Op("add", <<"assets", "wood">>, [type |-> "texture", url |-> WoodUrl]),
          Op("add", <<"scenes", "level_1", "nodes", "1", "texture">>, "wood")>>,
     \* a valid first operation followed by one that cannot be applied
     PrefixThenMissingPath |->
        <<Op("replace", <<"variables", "lives">>, 3),
          Op("replace", <<"nodes", "7", "color">>, "#999999")>>,
     \* a valid first operation followed by one that violates the schema
     PrefixThenBadColor |->
        <<Op("add", <<"variables", "lives">>, 3),
          Op("replace", <<"nodes", "0", "color">>, "red")>>,
     AppendToMissingArray |->
        <<Op("add", <<"scenes", "level_2", "subscriptions", "-">>, CollectCoin)>>,
     UnknownOp      |-> <<Op("frobnicate", <<"nodes", "0">>, Box)>>,
     NoPath         |-> <<[op |-> "add", value |-> LevelsDoc]>>,
     HoleInNodes    |-> <<Op("replace", <<"nodes", "4">>, Crate)>>,
     \* the active scene becomes an id that names no scene
     LeaveScenes    |-> <<Op("replace", <<"activeScene">>, <<"nowhere">>)>>,
     \* a node that names an asset key
     AppendTree     |-> <<Op("add", <<"nodes", "-">>, Tree)>>,
     AppendTwo      |-> <<Op("add", <<"nodes", "-">>, Crate),
                          Op("add", <<"nodes", "-">>, Boss)>>,
     \* node fields the schema constrains
     BadPosition    |-> <<Op("replace", <<"nodes", "0", "position">>, <<0, 0>>)>>,
     EmptyNodeId    |-> <<Op("replace", <<"nodes", "0", "id">>, "")>>,
     ZeroSize       |-> <<Op("add", <<"nodes", "0", "size">>, 0)>>,
     TooBright      |-> <<Op("add", <<"nodes", "0", "intensity">>, 11)>>,
     Resize         |-> <<Op("add", <<"nodes", "1", "size">>, 2),
                          Op("add", <<"nodes", "0", "intensity">>, 10)>>,
     \* batches applied in the mounted editor
     SetIncrement2  |->
        <<Op("replace", <<"subscriptions", "0", "actions", "0", "value">>, 2)>>,
     EditDefault    |-> <<Op("replace", <<"variables", "score">>, 2)>>,
     RemoveNode1    |-> <<Op("remove", <<"nodes", "1">>, 0)>>,
     \* the components of a live node are rewritten
     Rewire         |-> <<Op("replace", <<"nodes", "1", "components">>,
                             <<[type |-> "clickable", event |-> "node.hit"]>>)>>,
     \* a node stops declaring its colour
     DropColor      |-> <<Op("remove", <<"nodes", "1", "color">>, 0)>>,
     \* the id of the light becomes the id of a sized mesh
     RetypeSun      |->
        <<Op("replace", <<"nodes", "0">>,
             [id |-> "sun", type |-> "mesh", primitive |-> "sphere",
              position |-> <<0, 5, 0>>, size |-> 2])>>]

StoreBatches  == {"RecolorBox", "RecolorBoxBad", "AppendCrate", "AppendToLevel2",
                  "AppendTextured", "AddTexture", "PrefixThenMissingPath",
                  "PrefixThenBadColor", "AppendToMissingArray", "UnknownOp",
                  "NoPath", "HoleInNodes", "LeaveScenes", "AppendTree",
                  "BadPosition", "EmptyNodeId", "ZeroSize", "TooBright", "Resize",
                  "AppendTwo"}
BusBatches    == {"SetIncrement2", "RecolorBoxBad", "EditDefault", "LeaveScenes"}
BusEvents     == {"coin.clicked", "lights.out", "level.done", "game.over", "no.match"}
BusPayloads   == {[nodeId |-> "coin_1"], <<>>}

\* the documents by name
Doc == [LevelsDoc |-> LevelsDoc, TexturedDoc |-> TexturedDoc, SlashDoc |-> SlashDoc,
        GameDoc |-> GameDoc, ForestDoc |-> ForestDoc, OddDoc |-> OddDoc,
        RelayDoc |-> RelayDoc, OrchardDoc |-> OrchardDoc]

StoreDocs     == {"LevelsDoc", "TexturedDoc", "SlashDoc"}
SceneDocs     == {"GameDoc", "ForestDoc"}
SceneBatches  == {"RemoveNode1", "RetypeSun"}
SceneEvents   == {"node.hit"}
ScenePayloads == {[nodeId |-> "coin_1"], [nodeId |-> "sun"]}
Outcomes      == {"model", "empty"}
FaultDocs     == {"GameDoc", "OddDoc", "RelayDoc"}
FaultBatches  == {"RetypeSun", "DropColor", "Rewire", "RemoveNode1"}
FaultEvents   == {"coin.clicked", "mystery.box", "idle.tick", "door.open"}
ActionCalls   == { [batch |-> b, keys |-> k] :
                     b \in {"RecolorBox", "RecolorBoxBad", "AppendCrate"},
                     k \in {"op,path,value", "path,op,value"} }

MaxNodes == 3
MaxScore == 3
MaxLoads == 2
MaxClock == 4000

(***************************************************************************)
(* The state machine.  obs holds what the last call returned, raised and    *)
(* emitted, and the state it started from.                                  *)
(***************************************************************************)
NoObs == [op |-> "none", arg |-> "", success |-> FALSE, error |-> NoError,
          threw |-> FALSE, notified |-> 0, events |-> <<>>, settled |-> FALSE,
          repeat |-> FALSE, intact |-> TRUE, swapped |-> FALSE]

\* the state and the observation a call leaves behind; obs.settled: the last
\* thing that touched the scene was a reconcile pass that returned; obs.repeat:
\* this call was reconcile(doc) in such a state; obs.intact: the object the
\* store held before the call still reads as it did; obs.swapped: the store
\* holds another object
Settle(W, op, arg, result) ==
    /\ doc' = W.doc
    /\ variables' = W.variables
    /\ isPlaying' = W.isPlaying
    /\ destroyedNodes' = W.destroyedNodes
    /\ mounted' = W.mounted
    /\ rec' = Collect(W.rec)
    /\ obs' = [op |-> op, arg |-> arg,
               success |-> result.success, error |-> result.error,
               threw |-> W.threw, notified |-> W.notified, events |-> W.events,
               settled |-> IF W.rec.ran THEN ~W.rec.threw
                           ELSE obs.settled /\ op \notin {"loaded", "loadFailed"},
               repeat |-> op = "reconcile" /\ obs.settled,
               intact |-> W.held = doc, swapped |-> W.swapped]

\* a call that is not the updateGameDocument handler leaves its refs alone
Finish(W, op, arg, result) ==
    /\ Settle(W, op, arg, result)
    /\ hook' = hook

Void == [success |-> FALSE, error |-> NoError]

(***************************************************************************)
(* The updateGameDocument action of useGameActions                          *)
(* (src/src/editor/hooks/useGameActions.tsx:22-23, 61-92)                   *)
(***************************************************************************)
\* the debounce window in ms (line 71)
Window == 2000

\* the time between two invocations, in ms
Delays == {0, Window - 1, Window}

\* JSON.stringify(patches): the text lists the members of every operation in
\* insertion order, so it tells apart two arrays of equal content whose
\* operations were built with their keys in another order; the batches a call
\* can carry have pairwise distinct contents
Stringify(call) == <<call.keys, call.batch>>

\* lastPatchRef = '' and lastPatchTimeRef = 0 (lines 22-23); '' is the text of
\* no array.  calls: the batches the last invocation passed to applyPatch;
\* ran: text and time of the last invocation that called applyPatch
NoHook == [lastPatch |-> <<"", "">>, lastPatchTime |-> 0, now |-> 0,
           calls |-> <<>>, ran |-> <<>>]

\* a handler that records every invocation, ignored ones too
HandlerSliding(H, W, call, now) ==
    IF W.isPlaying
    THEN [lastPatch |-> H.lastPatch, lastPatchTime |-> H.lastPatchTime,
          W |-> [W EXCEPT !.threw = TRUE], calls |-> <<>>, result |-> Void]
    ELSE IF H.lastPatch = Stringify(call) /\ now - H.lastPatchTime < Window
    THEN [lastPatch |-> Stringify(call), lastPatchTime |-> now,
          W |-> W, calls |-> <<>>, result |-> Void]
    ELSE LET r == WApplyPatch(W, Batch[call.batch])
         IN [lastPatch |-> Stringify(call), lastPatchTime |-> now,
             W |-> IF r.result.success THEN r.W ELSE [r.W EXCEPT !.threw = TRUE],
             calls |-> <<call.batch>>, result |-> r.result]

\* handler({patches}) up to its trailing delay (lines 61-88)
Handler(H, W, call, now) ==
    IF W.isPlaying
    THEN [lastPatch |-> H.lastPatch, lastPatchTime |-> H.lastPatchTime,
          W |-> [W EXCEPT !.threw = TRUE], calls |-> <<>>, result |-> Void]
    ELSE IF H.lastPatch = Stringify(call) /\ now - H.lastPatchTime < Window
    THEN [lastPatch |-> H.lastPatch, lastPatchTime |-> H.lastPatchTime,
          W |-> W, calls |-> <<>>, result |-> Void]
    ELSE LET r == WApplyPatch(W, Batch[call.batch])
         IN [lastPatch |-> Stringify(call), lastPatchTime |-> now,
             W |-> IF r.result.success THEN r.W ELSE [r.W EXCEPT !.threw = TRUE],
             calls |-> <<call.batch>>, result |-> r.result]

\* the variables increment actions count up
Counters == {"score", "taps", "combo"}

WithinBounds ==
    /\ doc # Undefined =>
         \A id \in DOMAIN doc.scenes : Len(doc.scenes[id].nodes) < MaxNodes + 1
    /\ \A k \in (DOMAIN variables) \cap Counters : variables[k] < MaxScore
    /\ Cardinality(rec.tasks) < MaxLoads

SetDoc(name) ==
    /\ WithinBounds
    /\ Finish(WSetDoc(World, Doc[name]), "setDoc", name, Void)

ApplyResult(r, name) == Finish(r.W, "applyPatch", name, r.result)

ApplyPatch(name) ==
    /\ WithinBounds
    /\ ApplyResult(WApplyPatch(World, Batch[name]), name)

Publish(eventName, payload) ==
    /\ mounted
    /\ WithinBounds
    /\ Finish(WPublish(World, eventName, payload), "publish",
              [eventName |-> eventName, payload |-> payload], Void)

HandleToggle ==
    /\ mounted
    /\ WithinBounds
    /\ Finish(WHandleToggle(World), "toggle", <<>>, Void)

HandlerResult(r, call, now) ==
    /\ Settle(r.W, "updateGameDocument", call, r.result)
    /\ hook' = [lastPatch |-> r.lastPatch, lastPatchTime |-> r.lastPatchTime,
                now |-> now, calls |-> r.calls,
                ran |-> IF r.calls = <<>> THEN hook.ran
                        ELSE <<[text |-> Stringify(call), time |-> now]>>]

\* the assistant invokes updateGameDocument `delay` ms after the last invocation
UpdateGameDocument(call, delay) ==
    /\ mounted
    /\ WithinBounds
    /\ hook.now + delay < MaxClock + 1
    /\ HandlerResult(Handler(hook, World, call, hook.now + delay), call, hook.now + delay)

Reconcile ==
    /\ mounted
    /\ WithinBounds
    /\ Finish(WReconcile(World), "reconcile", <<>>, Void)

LoadSucceeds(t, outcome) ==
    /\ t \in rec.tasks
    /\ Finish([World EXCEPT !.rec = LoadResolved(@, t, outcome)], "loaded", t, Void)

LoadFails(t) ==
    /\ t \in rec.tasks
    /\ Finish([World EXCEPT !.rec = LoadRejected(@, t)], "loadFailed", t, Void)

\* the store before any document has been set, no editor mounted
InitStore ==
    /\ doc = Undefined
    /\ variables = <<>>
    /\ isPlaying = FALSE
    /\ destroyedNodes = {}
    /\ mounted = FALSE
    /\ rec = NoRec
    /\ obs = NoObs
    /\ hook = NoHook

NextStore ==
    \/ \E d \in StoreDocs : SetDoc(d)
    \/ \E b \in StoreBatches : ApplyPatch(b)

SpecStore == InitStore /\ [][NextStore]_vars

\* the editor after its mount effect (EditorApp.tsx:117-137): setDoc, an
\* initial reconcile, isPlaying = false, then the store subscription
Unmounted ==
    [doc |-> Undefined, variables |-> <<>>, isPlaying |-> FALSE,
     destroyedNodes |-> {}, mounted |-> FALSE, rec |-> NoRec,
     notified |-> 0, events |-> <<>>, threw |-> FALSE,
     held |-> Undefined, swapped |-> FALSE]

Mounted ==
    [WReconcile(WSetDoc(Unmounted, GameDoc)) EXCEPT !.isPlaying = FALSE, !.mounted = TRUE]

InitEditor ==
    \E M \in {Mounted} :
        /\ doc = M.doc
        /\ variables = M.variables
        /\ isPlaying = M.isPlaying
        /\ destroyedNodes = M.destroyedNodes
        /\ mounted = M.mounted
        /\ rec = Collect(M.rec)
        /\ obs = [NoObs EXCEPT !.settled = TRUE]
        /\ hook = NoHook

\* the event bus in the mounted editor
NextBus ==
    \/ \E b \in BusBatches : ApplyPatch(b)
    \/ \E e \in BusEvents, payload \in BusPayloads : Publish(e, payload)
    \/ HandleToggle

SpecBus == InitEditor /\ [][NextBus]_vars

\* the reconciler in the mounted editor
NextScene ==
    \/ \E d \in SceneDocs : SetDoc(d)
    \/ \E b \in SceneBatches : ApplyPatch(b)
    \/ \E e \in SceneEvents, payload \in ScenePayloads : Publish(e, payload)
    \/ HandleToggle
    \/ Reconcile
    \/ \E t \in rec.tasks, outcome \in Outcomes : LoadSucceeds(t, outcome)
    \/ \E t \in rec.tasks : LoadFails(t)

SpecScene == InitEditor /\ [][NextScene]_vars

\* the loads that can be pending: one per placeholder built for tree_1
LoadTasks ==
    { [url |-> TreeUrl, nodeId |-> "tree_1", placeholder |-> <<"tree_1", k>>] :
        k \in 1..(MaxLoads + 2) }

\* the loader settles the promise of every fetch it was given
LoaderSettles ==
    \A t \in LoadTasks :
        WF_vars(LoadFails(t) \/ \E outcome \in Outcomes : LoadSucceeds(t, outcome))

SpecLoads == SpecScene /\ LoaderSettles

\* a played scene whose clickable node is backed by an asset
NextAsset ==
    \/ \E d \in {"OrchardDoc", "GameDoc"} : SetDoc(d)
    \/ Publish("node.hit", [nodeId |-> "tree_1"])
    \/ HandleToggle
    \/ \E t \in rec.tasks, outcome \in Outcomes : LoadSucceeds(t, outcome)
    \/ \E t \in rec.tasks : LoadFails(t)

SpecAsset == InitEditor /\ [][NextAsset]_vars

\* the mounted editor driven with documents and patches that make an action
\* or a reconcile pass meet something unexpected
NextFault ==
    \/ \E d \in FaultDocs : SetDoc(d)
    \/ \E b \in FaultBatches : ApplyPatch(b)
    \/ \E e \in FaultEvents, payload \in BusPayloads : Publish(e, payload)
    \/ HandleToggle

SpecFault == InitEditor /\ [][NextFault]_vars

\* the assistant's action in the mounted editor
NextActions ==
    \/ \E call \in ActionCalls, delay \in Delays : UpdateGameDocument(call, delay)
    \/ HandleToggle

SpecActions == InitEditor /\ [][NextActions]_vars

(***************************************************************************)
(* Properties                                                              *)
(***************************************************************************)
NodeIds(d) ==
    { d.scenes[d.activeScene].nodes[i].id : i \in 1..Len(d.scenes[d.activeScene].nodes) }

\* what the renderer shows
Scene(R) == [nodeMap |-> R.nodeMap, objects |-> R.objects, materials |-> R.materials,
             leaked |-> R.leaked]

\* some operation of the batch cannot be applied, or the patched document
\* violates the schema
Rejectable(d, patches) ==
    \E applied \in {ApplyJsonPatch(d, ResolvePatches(d, patches))} :
        applied.threw \/ GameDocumentIssues(applied.clone) # {}

Reconciled(R) == R.ran /\ R.found /\ ~R.threw

\* C2: after reconcile returns for a document whose active scene exists, the
\* keys of the id->object map are exactly the node ids of the active scene,
\* and every object that was mapped under an id no longer listed has been
\* disposed in that call
MapMatchesScene ==
    [][Reconciled(rec')
        => /\ DOMAIN rec'.nodeMap = NodeIds(doc')
           /\ \A id \in (DOMAIN rec.nodeMap) \ NodeIds(doc') :
                 rec.nodeMap[id] \in rec'.disposed]_vars

\* a committed patch removed a node: its object was disposed and its key left
\* the map, the other nodes kept theirs
MapMatchesSceneWitness ==
    /\ obs.op = "applyPatch"
    /\ obs.arg = "RemoveNode1"
    /\ obs.success
    /\ Reconciled(rec)
    /\ rec.disposed # {}
    /\ DOMAIN rec.nodeMap = {"sun", "coin_1"}

\* C3: reconcile called again with the same document and the same
\* destroyedNodes creates nothing, disposes nothing and leaves the map and
\* every object as the first call left them
ReconcileIdempotent ==
    [][obs'.repeat
        => /\ rec'.created = {}
           /\ rec'.disposed = {}
           /\ Scene(rec') = Scene(rec)]_vars

\* reconcile was called again on a scene with a hidden node and live objects
ReconcileIdempotentWitness ==
    /\ obs.op = "reconcile"
    /\ obs.repeat
    /\ Reconciled(rec)
    /\ "coin_1" \in destroyedNodes
    /\ "coin_1" \in DOMAIN rec.nodeMap
    /\ ~rec.objects[rec.nodeMap["coin_1"]].isVisible

\* hidden: the object has a visibility flag and it is off
IsHidden(o) == Has(o, "isVisible") /\ ~o.isVisible

\* C4: after reconcile on a document whose active scene exists, the object of
\* every node of the scene, mesh or light, is hidden if and only if the
\* node's id is in destroyedNodes
HiddenIffDestroyed ==
    Reconciled(rec)
        => \A id \in NodeIds(doc) :
              IsHidden(rec.objects[rec.nodeMap[id]]) <=> id \in destroyedNodes

\* the sum of the values of the increment actions on `target` that a publish
\* of eventName runs, read from document d
RECURSIVE IncrementsOf(_, _)
IncrementsOf(actions, target) ==
    IF actions = <<>> THEN 0
    ELSE (IF Head(actions).type = "increment" /\ Head(actions).target = target
          THEN Head(actions).value ELSE 0) + IncrementsOf(Tail(actions), target)

RECURSIVE IncrementsOn(_, _, _)
IncrementsOn(subs, eventName, target) ==
    IF subs = <<>> THEN 0
    ELSE (IF Head(subs).on = eventName THEN IncrementsOf(Head(subs).actions, target) ELSE 0)
         + IncrementsOn(Tail(subs), eventName, target)

\* C5: publish reads the store's current document on every call: after a
\* publish of coin.clicked each variable equals its prior value (0 if it was
\* absent) plus the increment values found in the document at that moment, so
\* a value edited by a committed patch is the one the next publish adds
PublishReadsCurrentDoc ==
    [][(obs'.op = "publish" /\ isPlaying /\ obs'.arg.eventName = "coin.clicked"
        /\ Has(doc.scenes, doc.activeScene)
        /\ Has(doc.scenes[doc.activeScene], "subscriptions"))
        => \A target \in {"score", "taps"} :
              GetVariable(variables', target)
                = GetVariable(variables, target)
                  + IncrementsOn(doc.scenes[doc.activeScene].subscriptions,
                                 "coin.clicked", target)]_vars

\* a publish added 1, a patch set the value to 2, the next publish added 2;
\* taps, absent before the first publish, counted both
PublishReadsCurrentDocWitness ==
    /\ obs.op = "publish"
    /\ obs.arg.eventName = "coin.clicked"
    /\ isPlaying
    /\ doc.activeScene = L1
    /\ doc.scenes[L1].subscriptions[1].actions[1].value = 2
    /\ GetVariable(variables, "score") = 3
    /\ GetVariable(variables, "taps") = 2

\* C6: while isPlaying is false, publish changes no variable, no destroyed
\* mark and no document field, emits nothing and invokes no reconcile
PublishInertWhileStopped ==
    [][(obs'.op = "publish" /\ ~isPlaying)
        => /\ UNCHANGED <<doc, variables, destroyedNodes, isPlaying>>
           /\ obs'.events = <<>>
           /\ ~rec'.ran
           /\ Scene(rec') = Scene(rec)]_vars

\* an event with matching subscriptions was published while stopped
PublishInertWhileStoppedWitness ==
    /\ obs.op = "publish"
    /\ ~isPlaying
    /\ obs.arg = [eventName |-> "coin.clicked", payload |-> [nodeId |-> "coin_1"]]
    /\ doc.activeScene = L1
    /\ doc.scenes[L1].subscriptions[1].on = "coin.clicked"
    /\ ~obs.threw

\* the document the patch library produces from d and a batch
Patched(d, patches) == ApplyJsonPatch(d, ResolvePatches(d, patches)).cur

\* C7: when applyPatch returns success, the committed document equals the
\* pre-call document with every normalized operation applied in order; a
\* texture key set on a node is present in the committed document
CommittedEqualsPatched ==
    [][(obs'.op = "applyPatch" /\ obs'.success) => doc' = Patched(doc, Batch[obs'.arg])]_vars

\* C8: applyPatch never raises to its caller, whatever the store state and
\* the batch
ApplyPatchNeverThrows == obs.op = "applyPatch" => ~obs.threw

\* C9: a replace at the shorthand path /nodes/1/color changes
\* scenes[activeScene].nodes[1].color and nothing else in the document
ShorthandChangesOnlyItsTarget ==
    [][(obs'.op = "applyPatch" /\ obs'.arg = "RecolorBox" /\ obs'.success)
        => doc' = [doc EXCEPT !.scenes[doc.activeScene].nodes[2].color = "#999999"]]_vars

\* the scene an append batch of the model addresses, and the value it appends
AppendTarget(d, name) == IF name = "AppendToLevel2" THEN L2 ELSE d.activeScene
AppendValue(name) == Batch[name][1].value

\* C10: a single add whose path ends in /- makes the target array one longer:
\* its last element is the given value and all earlier elements are unchanged,
\* for the active scene by shorthand and for another scene by explicit path
AppendLandsAtEnd ==
    [][(obs'.op = "applyPatch" /\ obs'.success
        /\ obs'.arg \in {"AppendCrate", "AppendToLevel2", "AppendTextured"})
        => doc'.scenes[AppendTarget(doc, obs'.arg)].nodes
             = Append(doc.scenes[AppendTarget(doc, obs'.arg)].nodes,
                      AppendValue(obs'.arg))]_vars

\* C11: in every state reached by a successful applyPatch, doc.activeScene is
\* a key of doc.scenes; a batch whose result would break this is rejected
ActiveSceneExists ==
    [][(obs'.op = "applyPatch" /\ obs'.success) => Has(doc'.scenes, doc'.activeScene)]_vars

\* the ids of the nodes of scene sc, in order
SceneNodeIds(sc) == [i \in 1..Len(sc.nodes) |-> sc.nodes[i].id]

\* C12: after every successful applyPatch, node ids are pairwise distinct
\* within each scene
NodeIdsDistinct ==
    [][(obs'.op = "applyPatch" /\ obs'.success)
        => \A id \in DOMAIN doc'.scenes :
              \A i, j \in 1..Len(doc'.scenes[id].nodes) :
                 SceneNodeIds(doc'.scenes[id])[i] = SceneNodeIds(doc'.scenes[id])[j]
                    => i = j]_vars

\* the asset keys document d declares
AssetKeysOf(d) == IF Has(d, "assets") THEN DOMAIN d.assets ELSE {}

\* C13: after every successful applyPatch, every node's asset key and texture
\* key, when present, is a key of doc.assets
AssetRefsResolve ==
    [][(obs'.op = "applyPatch" /\ obs'.success)
        => \A id \in DOMAIN doc'.scenes :
              \A i \in 1..Len(doc'.scenes[id].nodes) :
                 \A k \in {"asset", "texture"} :
                    Has(doc'.scenes[id].nodes[i], k)
                       => doc'.scenes[id].nodes[i][k] \in AssetKeysOf(doc')]_vars

\* the fields of node n, at path `at`, that break a constraint the claim lists
NodeFaults(n, at) ==
    IF n = Undefined THEN {}
    ELSE Bad(Has(n, "color") /\ n.color \notin HexColors, at, "color")
         \cup Bad(Has(n, "position") /\ Len(n.position) # 3, at, "position")
         \cup Bad(Has(n, "id") /\ n.id = "", at, "id")
         \cup Bad(Has(n, "size") /\ n.size <= 0, at, "size")
         \cup Bad(Has(n, "intensity") /\ (n.intensity < 0 \/ n.intensity > 10),
                  at, "intensity")

DocFaults(d) ==
    UNION { UNION { NodeFaults(d.scenes[id].nodes[i],
                               <<"scenes">> \o id \o <<"nodes", Seg(i)>>)
                    : i \in 1..Len(d.scenes[id].nodes) }
            : id \in DOMAIN d.scenes }

\* every node of d is there and carries the fields the schema requires
RequiredPresent(d) ==
    \A id \in DOMAIN d.scenes : \A i \in 1..Len(d.scenes[id].nodes) :
        /\ d.scenes[id].nodes[i] # Undefined
        /\ {"id", "type", "position"} \subseteq DOMAIN d.scenes[id].nodes[i]

ValidatorAnswers(patched, v) ==
    /\ DocFaults(patched) # {}
          => ~v.success /\ v.error.kind # "" /\ DocFaults(patched) \subseteq v.error.paths
    /\ (DocFaults(patched) = {} /\ RequiredPresent(patched))
          => v.success /\ v.data = patched

\* C14: validatePatches returns success=false with an error naming the failing
\* field path when a node of the patched document has a colour that is not
\* '#' and 6 hex digits, a position that is not 3 numbers, an empty id, a
\* size that is not positive or an intensity outside 0..10; and it returns
\* success=true with the patched document when every node satisfies these
\* and the required fields are present
ValidatorChecksNodes ==
    [][(obs'.op = "applyPatch" /\ doc # Undefined)
        => \E applied \in {ApplyJsonPatch(doc, ResolvePatches(doc, Batch[obs'.arg]))} :
              ~applied.threw
                 => ValidatorAnswers(applied.clone,
                                     ValidatePatches(doc, ResolvePatches(doc, Batch[obs'.arg])))]_vars

\* the defaults the active scene of d declares
Defaults(d) ==
    IF Has(d.scenes, d.activeScene) /\ Has(d.scenes[d.activeScene], "variables")
    THEN d.scenes[d.activeScene].variables ELSE <<>>

\* C15: variable seeding never overwrites: after a call that commits a
\* document with setDoc, a variable the new active scene declares holds its
\* previous value if it was present and the declared default otherwise, and
\* every other variable keeps its previous value
SeedingNeverOverwrites ==
    [][(obs'.op = "setDoc" \/ (obs'.op = "applyPatch" /\ obs'.success))
        => /\ DOMAIN variables' = (DOMAIN variables) \cup (DOMAIN Defaults(doc'))
           /\ \A k \in DOMAIN variables' :
                 variables'[k] = IF k \in DOMAIN variables THEN variables[k]
                                 ELSE Defaults(doc')[k]]_vars

\* the default of score was edited to 2 while the live score was 1
SeedingNeverOverwritesWitness ==
    /\ obs.op = "applyPatch"
    /\ obs.arg = "EditDefault"
    /\ obs.success
    /\ Defaults(doc).score = 2
    /\ isPlaying
    /\ variables.score = 1

\* C18: reconcile with a document whose activeScene has no entry in scenes
\* raises nothing, creates nothing, disposes nothing and leaves the map and
\* every object as they were
MissingSceneNoEffect ==
    [][(rec'.ran /\ ~rec'.found)
        => /\ ~obs'.threw
           /\ rec'.created = {}
           /\ rec'.disposed = {}
           /\ Scene(rec') = Scene(rec)]_vars

\* the subscriber reconciled a committed document whose active scene is
\* missing while the map held the objects of the previous scene
MissingSceneNoEffectWitness ==
    /\ obs.op = "applyPatch"
    /\ obs.arg = "LeaveScenes"
    /\ obs.success
    /\ rec.ran
    /\ ~rec.found
    /\ DOMAIN rec.nodeMap = {"sun", "coin_1"}

\* a publish of eventName in a playing editor whose active scene subscribes
\* `sub` to it
Fires(sub, eventName) ==
    /\ obs'.op = "publish"
    /\ obs'.arg.eventName = eventName
    /\ isPlaying
    /\ Has(doc.scenes, doc.activeScene)
    /\ Has(doc.scenes[doc.activeScene], "subscriptions")
    /\ \E i \in 1..Len(doc.scenes[doc.activeScene].subscriptions) :
          doc.scenes[doc.activeScene].subscriptions[i] = sub

\* C19: after transition_scene{to, persistVars} to an existing scene,
\* activeScene is `to`, destroyedNodes is empty, isPlaying has its previous
\* value and every variable named in persistVars holds the value it had
\* before the transition, not the default of the target scene
TransitionKeepsPersisted ==
    [][Fires(NextLevel, "level.done")
        => /\ doc'.activeScene = NextLevel.actions[1].to
           /\ destroyedNodes' = {}
           /\ isPlaying' = isPlaying
           /\ \A i \in 1..Len(NextLevel.actions[1].persistVars) :
                 GetVariable(variables', NextLevel.actions[1].persistVars[i])
                    = GetVariable(variables, NextLevel.actions[1].persistVars[i])]_vars

\* the editor moved to level_2 with a score of 2, where level_2 declares 5
TransitionKeepsPersistedWitness ==
    /\ obs.op = "publish"
    /\ obs.arg.eventName = "level.done"
    /\ isPlaying
    /\ doc.activeScene = L2
    /\ doc.scenes[L2].variables.score = 5
    /\ variables.score = 2
    /\ destroyedNodes = {}

\* C20: transition_scene whose target is not a key of doc.scenes changes
\* nothing: the document, the variables, destroyedNodes and isPlaying stay,
\* no reconcile runs and nothing is raised
UnknownTargetNoEffect ==
    [][Fires(LostLevel, "game.over")
        => /\ UNCHANGED <<doc, variables, destroyedNodes, isPlaying>>
           /\ ~rec'.ran
           /\ ~obs'.threw
           /\ Scene(rec') = Scene(rec)]_vars

\* game.over was published while playing, with a destroyed mark in place
UnknownTargetNoEffectWitness ==
    /\ obs.op = "publish"
    /\ obs.arg.eventName = "game.over"
    /\ isPlaying
    /\ doc.activeScene = L1
    /\ doc.scenes[L1].subscriptions[5] = LostLevel
    /\ "coin_1" \in destroyedNodes
    /\ ~obs.threw

\* C16: prior snapshots are never mutated: the document object the store held
\* before applyPatch or a patchDoc (run by transition_scene) reads the same
\* after the call, whether it succeeded or failed; a call that committed left
\* another object in the store; and a rejected batch changed neither the
\* store nor RuntimeState
SnapshotsIntact ==
    [][(obs'.op \in {"applyPatch", "publish"})
        => /\ obs'.intact
           /\ obs'.notified > 0 => obs'.swapped
           /\ (obs'.op = "applyPatch" /\ ~obs'.success)
                 => UNCHANGED <<doc, variables, destroyedNodes, isPlaying>>]_vars

\* patchDoc moved the editor to level_2 and the object held before still
\* reads level_1
SnapshotsIntactWitness ==
    /\ obs.op = "publish"
    /\ obs.arg.eventName = "level.done"
    /\ doc.activeScene = L2
    /\ obs.notified = 1
    /\ obs.intact
    /\ obs.swapped

\* the node ids of the active scene that have no map entry when the pass starts
NewIds == NodeIds(doc') \ DOMAIN rec.nodeMap

\* C17: reconcile creates an object only for node ids that have no map entry
\* at the start of the pass, exactly one for each, stored in the map; an id
\* listed before and after keeps the very same object, which is not disposed
CreatesOnlyMissing ==
    [][Reconciled(rec')
        => /\ Cardinality(rec'.created) = Cardinality(NewIds)
           /\ \A id \in NewIds : rec'.nodeMap[id] \in rec'.created
           /\ \A id \in NodeIds(doc') \cap DOMAIN rec.nodeMap :
                 /\ rec'.nodeMap[id] = rec.nodeMap[id]
                 /\ rec'.nodeMap[id] \notin rec'.disposed]_vars

\* id is marked, a reconcile ran in the call, and the object of id is hidden
MarkedAndHidden(id) ==
    /\ id \in destroyedNodes'
    /\ rec'.ran
    /\ id \in DOMAIN rec'.nodeMap => IsHidden(rec'.objects[rec'.nodeMap[id]])

\* C21: destroy_node resolves '$event.node' to payload.nodeId and any other
\* target to itself, marks the resolved id and reconciles before it returns,
\* so the node is hidden in the step that marks it; with the placeholder and
\* no nodeId in the payload nothing is marked and no reconcile runs
DestroyHidesAtOnce ==
    [][/\ Fires(CollectCoin, "coin.clicked")
          => IF Has(obs'.arg.payload, "nodeId")
             THEN MarkedAndHidden(obs'.arg.payload.nodeId)
             ELSE destroyedNodes' = destroyedNodes /\ ~rec'.ran
       /\ Fires(LightsOut, "lights.out") => MarkedAndHidden(LightsOut.actions[1].target)]_vars

\* C22: when an action of one subscription raises, publish still runs the
\* later subscriptions matching the event and does not raise itself
SubscriptionsIsolated ==
    [][(Fires(CollectCoin, "coin.clicked") /\ Fires(CountTap, "coin.clicked"))
        => /\ ~obs'.threw
           /\ GetVariable(variables', "taps") = GetVariable(variables, "taps") + 1]_vars

\* C23: an action of an unrecognized type changes no state and raises
\* nothing, and the actions after it in the same subscription and in later
\* matching subscriptions are executed
UnknownActionSkipped ==
    [][Fires(OddDoc.scenes[L1].subscriptions[1], "mystery.box")
        => /\ ~obs'.threw
           /\ UNCHANGED <<doc, destroyedNodes, isPlaying>>
           /\ ~rec'.ran
           /\ GetVariable(variables', "taps") = GetVariable(variables, "taps") + 1
           /\ GetVariable(variables', "score") = GetVariable(variables, "score") + 1
           /\ \A k \in (DOMAIN variables) \ {"taps", "score"} :
                 k \in DOMAIN variables' /\ variables'[k] = variables[k]]_vars

\* mystery.box was published once in a fresh play session: the increment
\* after the unknown action and the one of the next subscription both ran
UnknownActionSkippedWitness ==
    /\ obs.op = "publish"
    /\ obs.arg.eventName = "mystery.box"
    /\ isPlaying
    /\ doc = OddDoc
    /\ ~obs.threw
    /\ GetVariable(variables, "taps") = 1
    /\ GetVariable(variables, "score") = 1

\* the variable-changed notifications among events
Changes(events) == SelectSeq(events, LAMBDA e : Has(e, "key"))

\* C24: setVariable emits one variable-changed notification {key, value}
\* when the value differs from the variable's prior value and none when it
\* does not; writing 0 to an absent variable, which reads as 0, emits none
SilentNoOpWrites ==
    [][obs'.op = "publish"
        => /\ \A i \in 1..Len(Changes(obs'.events)) :
                 Changes(obs'.events)[i].value
                    # GetVariable(variables, Changes(obs'.events)[i].key)
           /\ \A k \in DOMAIN variables' :
                 GetVariable(variables', k) # GetVariable(variables, k)
                    => \E i \in 1..Len(Changes(obs'.events)) :
                          Changes(obs'.events)[i] = [key |-> k, value |-> variables'[k]]]_vars

\* what the renderer shows for each id: the object and, when it uses the
\* material mat_<id>, that material
Shown(R) ==
    [id \in DOMAIN R.nodeMap |->
        [object |-> R.objects[R.nodeMap[id]],
         tint |-> IF Has(R.objects[R.nodeMap[id]], "material")
                     /\ R.objects[R.nodeMap[id]].material = "mat"
                  THEN R.materials[id]
                  ELSE [diffuseColor |-> "none", diffuseTexture |-> "none"]]]

\* C27: the renderer state is a pure projection of (document,
\* destroyedNodes): after reconcile(doc) the ids, kinds, positions, tints,
\* scales and visibility of the live objects are those a freshly constructed
\* reconciler produces from the same document and destroyedNodes
PureProjection ==
    [][Reconciled(rec')
        => Shown(rec') = Shown(ReconcilePass(NoRec, doc', destroyedNodes'))]_vars

\* C25: no duplicate fetch: a load of a URL requested while an earlier load
\* of the same URL is still pending reuses the in-flight result, so no
\* operation issues a fetch for a URL that has a pending load or issues two
\* fetches for one URL
NoDuplicateFetch ==
    [][\A i \in 1..Len(rec'.fetches) :
          /\ ~\E t \in rec.tasks : t.url = rec'.fetches[i]
          /\ \A j \in 1..Len(rec'.fetches) :
                rec'.fetches[j] = rec'.fetches[i] => j = i]_vars

\* C26: a load completion, success or failure, whose node id has been
\* orphan-swept from the id->object map leaves the map unchanged
StaleLoadIgnored ==
    [][(/\ obs'.op \in {"loaded", "loadFailed"}
        /\ obs'.arg.nodeId \notin DOMAIN rec.nodeMap)
        => rec'.nodeMap = rec.nodeMap]_vars

\* the mesh nodes of the active scene of d
MeshNodes(d) ==
    IF Has(d.scenes, d.activeScene)
    THEN { d.scenes[d.activeScene].nodes[i] :
             i \in { j \in 1..Len(d.scenes[d.activeScene].nodes) :
                       d.scenes[d.activeScene].nodes[j].type = "mesh" } }
    ELSE {}

\* C29: Stop resets the play session: after the toggle switches to stopped,
\* isPlaying is false, destroyedNodes is empty, a reset notification was
\* emitted, the variables are exactly the active scene's declared defaults,
\* and the reconcile of the re-applied document leaves every mesh node of
\* the active scene visible
StopResets ==
    [][(obs'.op = "toggle" /\ isPlaying)
        => /\ ~isPlaying'
           /\ destroyedNodes' = {}
           /\ \E i \in 1..Len(obs'.events) : obs'.events[i] = [reset |-> TRUE]
           /\ variables' = Defaults(doc')
           /\ Has(doc'.scenes, doc'.activeScene) => Reconciled(rec')
           /\ \A n \in MeshNodes(doc') :
                 /\ n.id \in DOMAIN rec'.nodeMap
                 /\ rec'.objects[rec'.nodeMap[n.id]].isVisible]_vars

\* the session was stopped in level_2, which a transition reached during play
StopResetsWitness ==
    /\ obs.op = "toggle"
    /\ ~isPlaying
    /\ doc.activeScene = L2
    /\ variables = [score |-> 5, lives |-> 3]
    /\ destroyedNodes = {}
    /\ rec.objects[rec.nodeMap["boss"]].isVisible

\* the actions of the subscriptions listening to eventName, subscriptions in
\* list order and each one's actions in array order
RECURSIVE MatchingActions(_, _)
MatchingActions(subs, eventName) ==
    IF subs = <<>> THEN <<>>
    ELSE (IF Head(subs).on = eventName THEN Head(subs).actions ELSE <<>>)
         \o MatchingActions(Tail(subs), eventName)

\* the subscriptions of the active scene of d
Subscriptions(d) ==
    IF Has(d.scenes, d.activeScene) /\ Has(d.scenes[d.activeScene], "subscriptions")
    THEN d.scenes[d.activeScene].subscriptions ELSE <<>>

\* the step left what running `actions` one after another with payload leaves
Ran(X) ==
    /\ doc' = X.doc
    /\ variables' = X.variables
    /\ destroyedNodes' = X.destroyedNodes
    /\ obs'.events = X.events
    /\ obs'.threw = X.threw

\* C30: while playing, publish(e, payload) executes the actions of exactly
\* the subscriptions of the current active scene whose `on` equals e,
\* subscriptions in list order and actions in array order, each with the
\* same payload; a publish no subscription matches, or in a scene without
\* subscriptions, changes no variable, no destroyedNodes entry and no
\* document field
PublishRunsMatching ==
    [][(obs'.op = "publish" /\ isPlaying)
        => /\ Ran(WExecuteActions(World,
                     MatchingActions(Subscriptions(doc), obs'.arg.eventName),
                     obs'.arg.payload))
           /\ MatchingActions(Subscriptions(doc), obs'.arg.eventName) = <<>>
                 => UNCHANGED <<doc, variables, destroyedNodes>>]_vars

\* coin.clicked ran collect_coin and then count_tap with the same payload
PublishRunsMatchingWitness ==
    /\ obs.op = "publish"
    /\ obs.arg = [eventName |-> "coin.clicked", payload |-> [nodeId |-> "coin_1"]]
    /\ isPlaying
    /\ obs.events = <<[key |-> "score", value |-> 1], [key |-> "taps", value |-> 1]>>
    /\ destroyedNodes = {"coin_1"}

\* the invocation repeats the text of the last one that called applyPatch
\* less than Window ms after it
IsDuplicate ==
    /\ hook.ran # <<>>
    /\ Stringify(obs'.arg) = hook.ran[1].text
    /\ hook'.now - hook.ran[1].time < Window

\* C28: while not playing, an invocation of updateGameDocument is ignored
\* (applyPatch is not called, the document is unchanged) if and only if the
\* serialization of its batch equals that of the most recent invocation that
\* was not ignored and it arrives less than 2000 ms after it; every other
\* invocation calls applyPatch exactly once with the given batch
GuardIgnoresDuplicates ==
    [][(obs'.op = "updateGameDocument" /\ ~isPlaying)
        => IF IsDuplicate
           THEN hook'.calls = <<>> /\ doc' = doc /\ ~obs'.threw
           ELSE hook'.calls = <<obs'.arg.batch>>]_vars

\* a batch was submitted again 1999 ms after it was applied and was ignored
GuardIgnoresDuplicatesWitness ==
    /\ obs.op = "updateGameDocument"
    /\ ~isPlaying
    /\ ~obs.threw
    /\ hook.calls = <<>>
    /\ hook.ran # <<>>
    /\ hook.ran[1].text = Stringify(obs.arg)
    /\ hook.now - hook.ran[1].time = Window - 1

\* C31: two appends to the same array of pre-batch length n in one batch are
\* both resolved to index n against the pre-batch document: after commit the
\* array has length n+2, the second operation's value is at index n and the
\* first's at n+1, and no earlier element was overwritten or moved
TwoAppendsBothLand ==
    [][(obs'.op = "applyPatch" /\ obs'.arg = "AppendTwo" /\ obs'.success)
        => /\ Len(doc'.scenes[doc.activeScene].nodes)
                 = Len(doc.scenes[doc.activeScene].nodes) + 2
           /\ doc'.scenes[doc.activeScene].nodes[Len(doc.scenes[doc.activeScene].nodes) + 1]
                 = Batch.AppendTwo[2].value
           /\ doc'.scenes[doc.activeScene].nodes[Len(doc.scenes[doc.activeScene].nodes) + 2]
                 = Batch.AppendTwo[1].value
           /\ \A i \in 1..Len(doc.scenes[doc.activeScene].nodes) :
                 /\ doc'.scenes[doc.activeScene].nodes[i].id
                       = doc.scenes[doc.activeScene].nodes[i].id
                 /\ ~Has(doc.scenes[doc.activeScene].nodes[i], "texture")
                       => doc'.scenes[doc.activeScene].nodes[i]
                             = doc.scenes[doc.activeScene].nodes[i]]_vars

\* crate and boss were appended to level_1 in one batch
TwoAppendsBothLandWitness ==
    /\ obs.op = "applyPatch"
    /\ obs.arg = "AppendTwo"
    /\ obs.success
    /\ doc.scenes[L1].nodes = <<Sun, Box, Boss, Crate>>

\* the events of the pick handlers registered on object o, in order
HandlersOf(o) == IF Has(o, "clicks") THEN o.clicks ELSE <<>>

\* the events of the clickable components node declares, in order
RECURSIVE ClickEvents(_)
ClickEvents(cs) ==
    IF cs = <<>> THEN <<>>
    ELSE (IF cs[1].type = "clickable" THEN <<cs[1].event>> ELSE <<>>)
         \o ClickEvents(Tail(cs))

\* C32: components are attached exactly once per renderer object, in the
\* reconcile pass that creates it: no step changes the handlers of an object
\* that was already live, even when the document has rewritten the node's
\* components, and an object a pass creates for a mesh node carries one
\* handler per clickable component of the node
AttachedOnceAtCreation ==
    [][/\ \A r \in ((DOMAIN rec.objects) \cap (DOMAIN rec'.objects)) \ rec'.created :
             HandlersOf(rec'.objects[r]) = HandlersOf(rec.objects[r])
       /\ Reconciled(rec')
             => \A n \in MeshNodes(doc') :
                   n.id \notin DOMAIN rec.nodeMap
                      => HandlersOf(rec'.objects[rec'.nodeMap[n.id]])
                            = IF Has(n, "components") THEN ClickEvents(n.components)
                              ELSE <<>>]_vars

\* the components of coin_1 were rewritten to publish node.hit; the live
\* object still publishes coin.clicked
AttachedOnceAtCreationWitness ==
    /\ obs.op = "applyPatch"
    /\ obs.arg = "Rewire"
    /\ obs.success
    /\ doc.scenes[L1].nodes[2].components[1].event = "node.hit"
    /\ rec.objects[rec.nodeMap["coin_1"]].clicks = <<"coin.clicked">>

\* coin_1 was removed and added again: its new object has the handler once
AttachedAgainWitness ==
    /\ obs.op = "setDoc"
    /\ rec.created # {}
    /\ rec.nodeMap["coin_1"] \in rec.created
    /\ rec.objects[rec.nodeMap["coin_1"]].clicks = <<"coin.clicked">>

\* the nodes of the active scene of d that createNode backs with an asset
AssetNodes(d) ==
    { n \in MeshNodes(d) : /\ Truthy(n, "asset") /\ Has(d, "assets")
                           /\ Has(d.assets, n.asset)
                           /\ d.assets[n.asset].type = "glb" }

\* the load that completed in this step delivered a container with a root
LoadedModel ==
    /\ obs'.op = "loaded"
    /\ rec'.assetCache[obs'.arg.url] = "model"

\* the object mapped under id was swapped for the loaded one
Swapped(id) ==
    /\ id \in DOMAIN rec'.nodeMap
    /\ rec'.nodeMap[id] \in rec'.created
    /\ rec'.objects[rec'.nodeMap[id]].kind = "model"
    /\ id \in DOMAIN rec.nodeMap
          => /\ rec.nodeMap[id] \in rec'.disposed
             /\ rec'.objects[rec'.nodeMap[id]].position
                   = rec.objects[rec.nodeMap[id]].position

\* C33: the reconcile pass that first sees an asset-backed node stores a
\* placeholder under its id before it returns; a successful load completion
\* replaces the map entry of the id in one step by the loaded object, placed
\* at the position of the placeholder it replaces, and disposes that
\* placeholder; no completion removes an id from the map
PlaceholderDiscipline ==
    [][/\ Reconciled(rec')
             => \A n \in AssetNodes(doc') :
                   n.id \notin DOMAIN rec.nodeMap
                      => /\ n.id \in DOMAIN rec'.nodeMap
                         /\ rec'.objects[rec'.nodeMap[n.id]].kind = "placeholder"
       /\ LoadedModel => Swapped(obs'.arg.nodeId)
       /\ obs'.op \in {"loaded", "loadFailed"}
             => DOMAIN rec.nodeMap \subseteq DOMAIN rec'.nodeMap]_vars

\* the load that completed in this step was for a node the document lists
\* and whose placeholder is the map entry of its id
TargetLive ==
    /\ obs'.op \in {"loaded", "loadFailed"}
    /\ obs'.arg.nodeId \in NodeIds(doc)
    /\ obs'.arg.nodeId \in DOMAIN rec.nodeMap
    /\ rec.nodeMap[obs'.arg.nodeId] = obs'.arg.placeholder

\* the map holds under id the loaded object or the placeholder marked errored
Terminal(R, id) ==
    /\ id \in DOMAIN R.nodeMap
    /\ \/ R.objects[R.nodeMap[id]].kind = "model"
       \/ /\ R.objects[R.nodeMap[id]].kind = "placeholder"
          /\ R.objects[R.nodeMap[id]].loadingColor = "red"

\* C34: every started asset load reaches a terminal state: the node's entry
\* in loadingNodes is eventually cleared, and the map then holds under the
\* node's id the loaded object or the placeholder marked errored; after a
\* rejection the placeholder stays in the map and no later reconcile pass
\* starts another load for the node while the document lists it
LoadsTerminate ==
    /\ ("tree_1" \in DOMAIN rec.loadingNodes) ~> ("tree_1" \notin DOMAIN rec.loadingNodes)
    /\ [][TargetLive => /\ obs'.arg.nodeId \notin DOMAIN rec'.loadingNodes
                        /\ Terminal(rec', obs'.arg.nodeId)]_vars
    /\ [][(/\ "tree_1" \in DOMAIN rec.nodeMap
           /\ rec.objects[rec.nodeMap["tree_1"]].kind = "placeholder"
           /\ rec.objects[rec.nodeMap["tree_1"]].loadingColor = "red"
           /\ "tree_1" \in NodeIds(doc')
           /\ Reconciled(rec'))
            => /\ rec'.nodeMap["tree_1"] = rec.nodeMap["tree_1"]
               /\ rec'.fetches = <<>>]_vars

\* C35: transition_scene resets the runtime variables: after a transition a
\* variable that persistVars does not list no longer holds its
\* pre-transition value; it holds the target scene's default when the target
\* scene declares it and is absent otherwise
TransitionResetsVariables ==
    [][Fires(NextLevel, "level.done")
        => \A k \in (DOMAIN variables) \ {"score"} :
              IF k \in DOMAIN Defaults(doc')
              THEN k \in DOMAIN variables' /\ variables'[k] = Defaults(doc')[k]
              ELSE k \notin DOMAIN variables']_vars

\* C36: publish dispatches from the subscription list of the scene that is
\* active when the call starts: after a transition_scene the remaining
\* actions of that subscription and the later matching subscription of the
\* original scene are executed, and no subscription of the new scene is
DispatchKeepsItsList ==
    [][Fires(RelayDoc.scenes[L1].subscriptions[1], "door.open")
        => /\ doc'.activeScene = L2
           /\ ~obs'.threw
           /\ GetVariable(variables', "taps") = GetVariable(variables, "taps") + 1
           /\ GetVariable(variables', "combo") = GetVariable(variables, "combo") + 1
           /\ GetVariable(variables', "score") = GetVariable(variables, "score")]_vars

\* door.open was published in level_1: the scene is level_2, the increment
\* after the transition and door_bell's ran, welcome's did not
DispatchKeepsItsListWitness ==
    /\ obs.op = "publish"
    /\ obs.arg.eventName = "door.open"
    /\ isPlaying
    /\ ~obs.threw
    /\ doc = [RelayDoc EXCEPT !.activeScene = L2]
    /\ variables = [score |-> 0, lives |-> 0, taps |-> 1, combo |-> 1]

\* C37: no renderer object leaks: in every reachable state every object that
\* was created or instantiated for a node and not yet disposed is the value
\* the id->object map stores under that node's id
NoObjectLeaks ==
    /\ rec.leaked = {}
    /\ \A r \in DOMAIN rec.objects :
          ~rec.objects[r].disposed
             => /\ rec.objects[r].name \in DOMAIN rec.nodeMap
                /\ rec.nodeMap[rec.objects[r].name] = r

\* the node of the active scene of d with the given id
NodeOf(d, id) == CHOOSE n \in MeshNodes(d) : n.id = id

\* the load that completed in this step swapped the placeholder of a listed
\* node for the loaded object
SwappedIn ==
    /\ LoadedModel
    /\ TargetLive
    /\ obs'.arg.nodeId \in { n.id : n \in MeshNodes(doc) }

\* C38: a node marked destroyed stays hidden until its mark is cleared: when
\* the load of an asset-backed node completes and the loaded object replaces
\* the placeholder, the object in the map is hidden if the node is marked
\* destroyed, and its uniform scale is the one applied from the document
SwapKeepsHiddenAndScale ==
    [][SwappedIn
        => /\ obs'.arg.nodeId \in destroyedNodes
                 => IsHidden(rec'.objects[rec'.nodeMap[obs'.arg.nodeId]])
           /\ Has(NodeOf(doc, obs'.arg.nodeId), "size")
                 => rec'.objects[rec'.nodeMap[obs'.arg.nodeId]].scaling
                       = NodeOf(doc, obs'.arg.nodeId).size]_vars

\* C39: click wiring survives the asset swap: after the load of an
\* asset-backed node that declares a clickable component completes and the
\* loaded object replaces the placeholder, the object stored under the
\* node's id carries the click handler of the component
SwapKeepsClickWiring ==
    [][(SwappedIn /\ Has(NodeOf(doc, obs'.arg.nodeId), "components"))
        => HandlersOf(rec'.objects[rec'.nodeMap[obs'.arg.nodeId]])
              = ClickEvents(NodeOf(doc, obs'.arg.nodeId).components)]_vars

\* C40: when transition_scene lists in persistVars a variable that is absent
\* from RuntimeState, the value captured for it is 0 and is written back
\* after the target scene's defaults are seeded: after the transition the
\* variable equals 0 although the target scene declares a non-zero default
AbsentPersistedIsZero ==
    [][(/\ Fires(RelayDoc.scenes[L1].subscriptions[1], "door.open")
        /\ "lives" \notin DOMAIN variables)
        => /\ Defaults(doc').lives = 3
           /\ "lives" \in DOMAIN variables'
           /\ variables'.lives = 0]_vars

\* door.open was published in a session that had no variable lives: level_2
\* declares lives = 3 and the variable is 0
AbsentPersistedIsZeroWitness ==
    /\ obs.op = "publish"
    /\ obs.arg.eventName = "door.open"
    /\ isPlaying
    /\ doc.activeScene = L2
    /\ Defaults(doc).lives = 3
    /\ variables.lives = 0
    /\ \E i \in 1..Len(obs.events) : obs.events[i] = [key |-> "lives", value |-> 0]

====
